---- MODULE Spec2Model ----
(***************************************************************************)
(* PulseCheck: the sharded peer registry (Monitor) with its reaper, the   *)
(* heartbeat frame codec (Packet.Encode / Decode), the classification of   *)
(* samples (CalculateStatus), the UDP engine (UDPNode) and the             *)
(* orchestrator (cmd/node main).                                           *)
(*                                                                         *)
(* Registry: internal/registry/monitor.go in its sharded form, the form    *)
(* monitor_test.go compiles against (m.shards, numShards, PacketTime).     *)
(* Codec: internal/protocol/packet.go in its 30-byte CRC form, the form    *)
(* packet_test.go (TestPacketDecodeCorruptedChecksum) compiles against.    *)
(***************************************************************************)
EXTENDS Integers, Sequences, FiniteSets, TLC

(***************************************************************************)
(* Bounds of the model.  Time is counted in whole units of the local       *)
(* clock; Timeout and Interval are the two arguments of StartReaper.       *)
(***************************************************************************)
MaxClock == 4
Timeout == 2
Interval == 1
NumCallers == 2
NumEmitters == 2
UpdatesPerEmitter == 2
MaxExtra == 2
MaxRaises == 1
NumCPU == 1
MaxDatagrams == 3
FloodDatagrams == 6
MaxBroadcasts == 2
MaxTicks == 2
NumProcesses == 2
MaxPairFrames == 1

numShards == 16

VARIABLES
    clock,        \* time.Now() of the receiving node
    tickerC,      \* ticks waiting in the reaper's ticker channel (capacity 1)
    shards,       \* Monitor.shards: per shard the nodes map and the RWMutex
    callers,      \* goroutines calling Update / UpdateWithStatus / UpdateWithTelemetry
    reaper,       \* the StartReaper goroutine: position in its loops
    counter,      \* a goroutine calling GetNodeCount
    timedOutLog,  \* number of "Node %s timed out" lines logged per address
    created,      \* history: how often a record was created per address
    lastUpdateAt, \* history: clock of the latest update of the record not yet evicted
    codec,        \* the codec under test: a packet, its frame, a buffer, a result
    telemetry,    \* the classifier under test: metrics, thresholds, the status returned
    packetChan,   \* UDPNode.packetChan: the jobs queued for the workers
    peers,        \* UDPNode.peers: the keys of the peer address book
    workers,      \* the worker goroutines: position in handlePacket, the job in hand
    bcast,        \* a BroadcastHeartbeat call: position, snapshot, sends attempted
    netlog,       \* datagrams read, queued and dropped; lines logged by the engine
    engine,       \* the engine's goroutines: stopChan, the socket, the receive loop of Start
    main,         \* the orchestrator: main() from the seed bootstrap to its return
    lister,       \* a goroutine calling GetNodes
    remote        \* instance 2 of a two-instance run, as instance 1 meets it

netVars == <<packetChan, peers, workers, bcast, netlog>>

vars == <<clock, tickerC, shards, callers, reaper, counter, timedOutLog,
          created, lastUpdateAt, codec, telemetry, netVars, engine, main, lister,
                   remote>>

(***************************************************************************)
(* Addresses are "host:port" strings, kept as their octets so that         *)
(* getShard can hash them.  "1:2" and "3:8" fall in shard 0, "1:7" in      *)
(* shard 15, "1:1" in shard 9.                                             *)
(***************************************************************************)
Addr12 == <<49, 58, 50>>
Addr38 == <<51, 58, 56>>
Addr17 == <<49, 58, 55>>
Addr11 == <<49, 58, 49>>

\* XOR of two 4-bit values, bit by bit.
Xor4(a, b) ==
    LET bit(x, k) == (x \div (2 ^ k)) % 2
    IN  ((bit(a, 0) + bit(b, 0)) % 2)
        + 2 * ((bit(a, 1) + bit(b, 1)) % 2)
        + 4 * ((bit(a, 2) + bit(b, 2)) % 2)
        + 8 * ((bit(a, 3) + bit(b, 3)) % 2)

(***************************************************************************)
(* FNV-1a, 32 bit: h := offset; for each octet b: h := (h XOR b) * prime.  *)
(* getShard keeps only h AND 15, and the low four bits of an XOR and of a  *)
(* product mod 2^32 depend only on the low four bits of the operands, so   *)
(* the hash is carried at four bits: offset 2166136261 = 5 (mod 16) and    *)
(* prime 16777619 = 3 (mod 16).                                            *)
(***************************************************************************)
RECURSIVE fnv32aLow(_, _)
fnv32aLow(h, s) ==
    IF s = <<>> THEN h
    ELSE CHOOSE r \in
            {fnv32aLow(x, t) :
                x \in {(Xor4(h, Head(s) % 16) * 3) % 16}, t \in {Tail(s)}} : TRUE

getShard(addr) == fnv32aLow(5, addr) % numShards

ShardIds == 0 .. (numShards - 1)

(***************************************************************************)
(* NodeInfo and the three writers.  A missing key reads as the zero        *)
(* NodeInfo (Go map semantics).                                            *)
(***************************************************************************)
ZeroNodeInfo ==
    [LastSeen |-> 0, Address |-> <<>>, CPUPercent |-> 0, RAMPercent |-> 0,
     DiskPercent |-> 0, StatusCode |-> 0, PacketTime |-> 0, RTT |-> 0]

Lookup(nodes, addr) ==
    IF addr \in DOMAIN nodes THEN nodes[addr] ELSE ZeroNodeInfo

\* A write that replaces the shard's map by a map of the one entry.
PutFreshMap(nodes, addr, info) == [a \in {addr} |-> info]

Put(nodes, addr, info) ==
    [a \in DOMAIN nodes \cup {addr} |-> IF a = addr THEN info ELSE nodes[a]]

\* A delete that misses the key.
DeleteOtherKey(nodes, addr) == nodes

Delete(nodes, addr) ==
    [a \in DOMAIN nodes \ {addr} |-> nodes[a]]

\* shard.nodes[addr] = NodeInfo{LastSeen: time.Now(), Address: addr}
Update(nodes, addr, now) ==
    Put(nodes, addr, [ZeroNodeInfo EXCEPT !.LastSeen = now, !.Address = addr])

\* LastSeen taken from the packet's timestamp unless that is zero.
UpdateWithStatusSenderTime(nodes, addr, statusCode, packetTimestamp, now) ==
    Put(nodes, addr,
        [Lookup(nodes, addr) EXCEPT
            !.LastSeen = IF packetTimestamp = 0 THEN now ELSE packetTimestamp,
            !.Address = addr,
            !.StatusCode = statusCode,
            !.PacketTime = packetTimestamp])

\* The record built anew, as Update builds it, with the two packet fields.
UpdateWithStatusFresh(nodes, addr, statusCode, packetTimestamp, now) ==
    Put(nodes, addr,
        [ZeroNodeInfo EXCEPT
            !.LastSeen = now, !.Address = addr, !.StatusCode = statusCode,
            !.PacketTime = packetTimestamp])

UpdateWithStatus(nodes, addr, statusCode, packetTimestamp, now) ==
    Put(nodes, addr,
        [Lookup(nodes, addr) EXCEPT
            !.LastSeen = now,
            !.Address = addr,
            !.StatusCode = statusCode,
            !.PacketTime = packetTimestamp])

\* The composite literal without its LastSeen field.
UpdateWithTelemetryNoLastSeen(nodes, addr, cpu, ram, disk, statusCode, now) ==
    Put(nodes, addr,
        [ZeroNodeInfo EXCEPT
            !.Address = addr, !.CPUPercent = cpu, !.RAMPercent = ram,
            !.DiskPercent = disk, !.StatusCode = statusCode])

\* The fields written into the record found, the status code left out.
UpdateWithTelemetryMerge(nodes, addr, cpu, ram, disk, statusCode, now) ==
    Put(nodes, addr,
        [Lookup(nodes, addr) EXCEPT
            !.LastSeen = now, !.Address = addr, !.CPUPercent = cpu,
            !.RAMPercent = ram, !.DiskPercent = disk])

UpdateWithTelemetry(nodes, addr, cpu, ram, disk, statusCode, now) ==
    Put(nodes, addr,
        [ZeroNodeInfo EXCEPT
            !.LastSeen = now, !.Address = addr, !.CPUPercent = cpu,
            !.RAMPercent = ram, !.DiskPercent = disk, !.StatusCode = statusCode])

(***************************************************************************)
(* sync.RWMutex of a shard: one writer or any number of readers.           *)
(***************************************************************************)
\* A lock holder is a goroutine, named by a kind and a number.
NoHolder == [kind |-> "none", id |-> 0]
CallerId(p) == [kind |-> "caller", id |-> p]
ReaperId == [kind |-> "reaper", id |-> 0]
CounterId == [kind |-> "counter", id |-> 0]
ListerId == [kind |-> "lister", id |-> 0]

FreeMu == [writer |-> NoHolder, readers |-> {}]

\* A mutex that lets every writer in.
CanLockAlways(mu) == TRUE

CanLock(mu) == mu.writer = NoHolder /\ mu.readers = {}
CanRLock(mu) == mu.writer = NoHolder

EmptyShard == [nodes |-> <<>>, mu |-> FreeMu]

\* NewMonitor
NewMonitor == [i \in ShardIds |-> EmptyShard]

\* GetNodeInfo on a registry nobody is writing: (info, ok)
GetNodeInfo(addr) ==
    LET nodes == shards[getShard(addr)].nodes
    IN  [info |-> Lookup(nodes, addr), ok |-> addr \in DOMAIN nodes]

\* The addresses that have a record in some shard.
Present == UNION {DOMAIN shards[i].nodes : i \in ShardIds}

RECURSIVE SumLen(_)
SumLen(n) ==
    IF n = 0 THEN 0
    ELSE SumLen(n - 1) + Cardinality(DOMAIN shards[n - 1].nodes)


(***************************************************************************)
(* A goroutine calling GetNodes.  While the call runs, hist keeps for each *)
(* address what GetNodeInfo would have returned at each instant of the     *)
(* call: the pair at the start and the pair after each write or delete.    *)
(***************************************************************************)
IdleLister == [pc |-> "idle", i |-> 0, result |-> <<>>, hist |-> <<>>]

InCall(l) == l.pc \in {"lock", "locked"}

\* nodes is the map of the shard of addr after a write or a delete.
Touch(l, addr, nodes) ==
    IF InCall(l)
    THEN [l EXCEPT !.hist[addr] =
             @ \cup {[info |-> Lookup(nodes, addr), ok |-> addr \in DOMAIN nodes]}]
    ELSE l

(***************************************************************************)
(* Goroutines calling the writers.                                         *)
(***************************************************************************)
Callers == 1 .. NumCallers

NoOp ==
    [kind |-> "none", addr |-> <<>>, statusCode |-> 0, packetTimestamp |-> 0,
     cpu |-> 0, ram |-> 0, disk |-> 0]

OpUpdate(a) == [NoOp EXCEPT !.kind = "Update", !.addr = a]

OpStatus(a, sc, ts) ==
    [NoOp EXCEPT !.kind = "UpdateWithStatus", !.addr = a, !.statusCode = sc,
                 !.packetTimestamp = ts]

OpTelemetry(a, c, r, d, sc) ==
    [NoOp EXCEPT !.kind = "UpdateWithTelemetry", !.addr = a, !.cpu = c,
                 !.ram = r, !.disk = d, !.statusCode = sc]

IdleCaller ==
    [pc |-> "idle", addr |-> <<>>, shard |-> 0,
     existing |-> [info |-> ZeroNodeInfo, ok |-> FALSE]]

\* The map as the goroutine knows it: shard.nodes with, for addr, what the
\* goroutine has read after taking the lock (info := shard.nodes[addr]).
\* Under the lock this is shard.nodes itself.
Seen(nodes, addr, existing) ==
    IF existing.ok THEN Put(nodes, addr, existing.info) ELSE Delete(nodes, addr)

\* The body of the critical section of the three writers.
Apply(nodes, op, now) ==
    CASE op.kind = "Update" -> Update(nodes, op.addr, now)
      [] op.kind = "UpdateWithStatus" ->
            UpdateWithStatus(nodes, op.addr, op.statusCode, op.packetTimestamp, now)
      [] op.kind = "UpdateWithTelemetry" ->
            UpdateWithTelemetry(nodes, op.addr, op.cpu, op.ram, op.disk,
                                op.statusCode, now)

\* shard := m.getShard(addr); shard.mu.Lock(), and the read of the record
\* of addr that UpdateWithStatus begins with
UpdateLock(p, addr) ==
    LET s == getShard(addr) IN
    /\ callers[p].pc = "idle"
    /\ CanLock(shards[s].mu)
    /\ shards' = [shards EXCEPT ![s].mu.writer = CallerId(p)]
    /\ callers' = [callers EXCEPT
                      ![p] = [pc |-> "locked", addr |-> addr, shard |-> s,
                              existing |-> [info |-> Lookup(shards[s].nodes, addr),
                                            ok |-> addr \in DOMAIN shards[s].nodes]]]
    /\ UNCHANGED <<clock, tickerC, reaper, counter, timedOutLog, created,
                   lastUpdateAt, codec, telemetry, netVars, engine, main, lister,
                   remote>>

\* time.Now(), the write to shard.nodes, and the deferred shard.mu.Unlock().
\* op is the call the goroutine is in: its kind and its arguments.
UpdateStore(p, op) ==
    LET s == callers[p].shard IN
    /\ callers[p].pc = "locked"
    /\ op.addr = callers[p].addr
    /\ shards' = [shards EXCEPT
                     ![s].nodes = Apply(Seen(@, op.addr, callers[p].existing), op, clock),
                     ![s].mu.writer = NoHolder]
    /\ callers' = [callers EXCEPT ![p] = IdleCaller]
    /\ created' = [created EXCEPT ![op.addr] =
                      IF op.addr \in DOMAIN shards[s].nodes THEN @ ELSE @ + 1]
    /\ lastUpdateAt' = [lastUpdateAt EXCEPT ![op.addr] = clock]
    /\ lister' = Touch(lister, op.addr, shards'[s].nodes)
    /\ UNCHANGED <<clock, tickerC, reaper, counter, timedOutLog, codec, telemetry, netVars,
                   engine, main, remote>>

(***************************************************************************)
(* The clock and the reaper's ticker: time.NewTicker(interval) puts a tick *)
(* in a channel of capacity one every interval and drops it when the       *)
(* previous one was not taken.                                             *)
(***************************************************************************)
Tick ==
    /\ clock < MaxClock
    /\ clock' = clock + 1
    /\ tickerC' = IF (clock + 1) % Interval = 0 THEN 1 ELSE tickerC
    /\ UNCHANGED <<shards, callers, reaper, counter, timedOutLog, created,
                   lastUpdateAt, codec, telemetry, netVars, engine, main, lister,
                   remote>>

(***************************************************************************)
(* StartReaper.                                                            *)
(***************************************************************************)
\* time.Since(info.LastSeen) > timeout, with the sender's timestamp read
\* in place of LastSeen.
ExpiredByPacketTime(info, now, timeout) == now - info.PacketTime > timeout

\* time.Since(info.LastSeen) > 2*timeout
ExpiredLate(info, now, timeout) == now - info.LastSeen > 2 * timeout

\* time.Since(info.LastSeen) > timeout
\* A record counted as expired already at the age of exactly timeout.
ExpiredAtTimeout(info, now, timeout) == now - info.LastSeen >= timeout

Expired(info, now, timeout) == now - info.LastSeen > timeout

\* for range ticker.C
ReaperTick ==
    /\ reaper.pc = "wait"
    /\ tickerC = 1
    /\ tickerC' = 0
    /\ reaper' = [reaper EXCEPT !.pc = "lock", !.i = 0, !.passStart = clock]
    /\ UNCHANGED <<clock, shards, callers, counter, timedOutLog, created,
                   lastUpdateAt, codec, telemetry, netVars, engine, main, lister,
                   remote>>

\* shard := m.shards[i]; shard.mu.Lock(); the range starts over the keys
ReaperLock ==
    /\ reaper.pc = "lock"
    /\ CanLock(shards[reaper.i].mu)
    /\ shards' = [shards EXCEPT ![reaper.i].mu.writer = ReaperId]
    /\ reaper' = [reaper EXCEPT !.pc = "range",
                                !.todo = DOMAIN shards[reaper.i].nodes]
    /\ UNCHANGED <<clock, tickerC, callers, counter, timedOutLog, created,
                   lastUpdateAt, codec, telemetry, netVars, engine, main, lister,
                   remote>>

\* one iteration of: for addr, info := range shard.nodes
ReaperExamine(addr) ==
    LET nodes == shards[reaper.i].nodes IN
    /\ reaper.pc = "range"
    /\ addr \in reaper.todo
    /\ reaper' = [reaper EXCEPT !.todo = @ \ {addr}]
    /\ IF Expired(nodes[addr], clock, Timeout)
       THEN /\ shards' = [shards EXCEPT ![reaper.i].nodes = Delete(@, addr)]
            /\ timedOutLog' = [timedOutLog EXCEPT ![addr] = @ + 1]
            /\ lastUpdateAt' = [lastUpdateAt EXCEPT ![addr] = -1]
            /\ lister' = Touch(lister, addr, Delete(nodes, addr))
       ELSE UNCHANGED <<shards, timedOutLog, lastUpdateAt, lister>>
    /\ UNCHANGED <<clock, tickerC, callers, counter, created, codec, telemetry, netVars,
                   engine, main, remote>>

\* The reaper going on to the next shard with the lock of this one held.
ReaperKeepsLock ==
    /\ reaper.pc = "range"
    /\ reaper.todo = {}
    /\ reaper' = IF reaper.i + 1 < numShards
                 THEN [reaper EXCEPT !.pc = "lock", !.i = @ + 1]
                 ELSE [reaper EXCEPT !.pc = "wait", !.i = 0]
    /\ UNCHANGED <<clock, tickerC, shards, callers, counter, timedOutLog, created,
                   lastUpdateAt, codec, telemetry, netVars, engine, main, lister,
                   remote>>

\* shard.mu.Unlock(); i++ ; the pass is complete when i reaches numShards
ReaperUnlock ==
    /\ reaper.pc = "range"
    /\ reaper.todo = {}
    /\ shards' = [shards EXCEPT ![reaper.i].mu.writer = NoHolder]
    /\ reaper' = IF reaper.i + 1 < numShards
                 THEN [reaper EXCEPT !.pc = "lock", !.i = @ + 1]
                 ELSE [reaper EXCEPT !.pc = "wait", !.i = 0]
    /\ UNCHANGED <<clock, tickerC, callers, counter, timedOutLog, created,
                   lastUpdateAt, codec, telemetry, netVars, engine, main, lister,
                   remote>>

\* The reaper is between two passes and has completed at least one.
PassCompleted == reaper.pc = "wait" /\ reaper.passStart >= 0

(***************************************************************************)
(* GetNodeCount: the shards one after the other, each under its read lock. *)
(***************************************************************************)
\* total = len(shard.nodes)
CountAssign(total, n) == n

\* total += len(shard.nodes)
CountAdd(total, n) == total + n

\* The addresses ever written.
Updated == {a \in DOMAIN created : created[a] > 0}

\* total := 0; i := 0.  atStart remembers how many addresses had been
\* written when the call began.
CountStart ==
    /\ counter.pc \in {"idle", "done"}
    /\ counter' = [pc |-> "lock", i |-> 0, total |-> 0, result |-> 0,
                   atStart |-> Cardinality(Updated)]
    /\ UNCHANGED <<clock, tickerC, shards, callers, reaper, timedOutLog, created,
                   lastUpdateAt, codec, telemetry, netVars, engine, main, lister,
                   remote>>

\* shard := m.shards[i]; shard.mu.RLock()
CountRLock ==
    /\ counter.pc = "lock"
    /\ CanRLock(shards[counter.i].mu)
    /\ shards' = [shards EXCEPT ![counter.i].mu.readers = @ \cup {CounterId}]
    /\ counter' = [counter EXCEPT !.pc = "locked"]
    /\ UNCHANGED <<clock, tickerC, callers, reaper, timedOutLog, created,
                   lastUpdateAt, codec, telemetry, netVars, engine, main, lister,
                   remote>>

\* total += len(shard.nodes); shard.mu.RUnlock(); i++ ; return total at the end
CountShard ==
    LET t == CountAdd(counter.total, Cardinality(DOMAIN shards[counter.i].nodes)) IN
    /\ counter.pc = "locked"
    /\ shards' = [shards EXCEPT ![counter.i].mu.readers = @ \ {CounterId}]
    /\ counter' = IF counter.i + 1 < numShards
                  THEN [counter EXCEPT !.pc = "lock", !.i = @ + 1, !.total = t]
                  ELSE [counter EXCEPT !.pc = "done", !.i = 0, !.total = t,
                                       !.result = t]
    /\ UNCHANGED <<clock, tickerC, callers, reaper, timedOutLog, created,
                   lastUpdateAt, codec, telemetry, netVars, engine, main, lister,
                   remote>>

NextCount == CountStart \/ CountRLock \/ CountShard

\* result = nodes: the entries copied before are lost.
CopyShardOnly(result, nodes) == nodes

\* for k, v := range shard.nodes { result[k] = v }
CopyShard(result, nodes) ==
    [a \in DOMAIN result \cup DOMAIN nodes |->
        IF a \in DOMAIN nodes THEN nodes[a] ELSE result[a]]

\* result := make(map[string]NodeInfo); i := 0
GetNodesStart ==
    /\ lister.pc \in {"idle", "done"}
    /\ lister' = [pc |-> "lock", i |-> 0, result |-> <<>>,
                  hist |-> [a \in DOMAIN created |-> {GetNodeInfo(a)}]]
    /\ UNCHANGED <<clock, tickerC, shards, callers, reaper, counter, timedOutLog,
                   created, lastUpdateAt, codec, telemetry, netVars, engine, main,
                   remote>>

\* shard := m.shards[i]; shard.mu.RLock(); the range over shard.nodes;
\* shard.mu.RUnlock(); i++ ; return result at the end.  Nothing can change
\* the shard between the RLock and the RUnlock, so they are one step.
GetNodesShard ==
    /\ lister.pc = "lock"
    /\ CanRLock(shards[lister.i].mu)
    /\ lister' = [lister EXCEPT
                     !.result = CopyShard(@, shards[lister.i].nodes),
                     !.pc = IF lister.i + 1 < numShards THEN "lock" ELSE "done",
                     !.i = IF lister.i + 1 < numShards THEN @ + 1 ELSE 0]
    /\ UNCHANGED <<clock, tickerC, shards, callers, reaper, counter, timedOutLog,
                   created, lastUpdateAt, codec, telemetry, netVars, engine, main,
                   remote>>

\* The same step in its two halves.  shard := m.shards[i]; shard.mu.RLock()
GetNodesRLock ==
    /\ lister.pc = "lock"
    /\ CanRLock(shards[lister.i].mu)
    /\ shards' = [shards EXCEPT ![lister.i].mu.readers = @ \cup {ListerId}]
    /\ lister' = [lister EXCEPT !.pc = "locked"]
    /\ UNCHANGED <<clock, tickerC, callers, reaper, counter, timedOutLog,
                   created, lastUpdateAt, codec, telemetry, netVars, engine, main,
                   remote>>

\* the range over shard.nodes; shard.mu.RUnlock(); i++ ; return result at
\* the end
GetNodesCopy ==
    /\ lister.pc = "locked"
    /\ shards' = [shards EXCEPT ![lister.i].mu.readers = @ \ {ListerId}]
    /\ lister' = [lister EXCEPT
                     !.result = CopyShard(@, shards[lister.i].nodes),
                     !.pc = IF lister.i + 1 < numShards THEN "lock" ELSE "done",
                     !.i = IF lister.i + 1 < numShards THEN @ + 1 ELSE 0]
    /\ UNCHANGED <<clock, tickerC, callers, reaper, counter, timedOutLog,
                   created, lastUpdateAt, codec, telemetry, netVars, engine, main,
                   remote>>

NextGetNodes == GetNodesStart \/ GetNodesShard

(***************************************************************************)
(* The heartbeat frame codec.  A uint32 is kept as its two 16-bit halves,  *)
(* value = hi * 65536 + lo.  An int64 is kept as three limbs,              *)
(* value = hi * 2^48 + mid * 2^24 + lo with hi in -32768 .. 32767 and      *)
(* mid, lo in 0 .. 2^24 - 1.                                               *)
(***************************************************************************)
PacketSize == 30
PacketDataSize == 26
Version == 1

Bytes == 0 .. 255

\* a ^ b on octets
XorByte == [a \in Bytes |-> [b \in Bytes |->
               Xor4(a \div 16, b \div 16) * 16 + Xor4(a % 16, b % 16)]]

U32(hi, lo) == [hi |-> hi, lo |-> lo]

Xor32(x, y) ==
    LET x16(a, b) == XorByte[a \div 256][b \div 256] * 256 + XorByte[a % 256][b % 256]
    IN  U32(x16(x.hi, y.hi), x16(x.lo, y.lo))

\* x >> n for n in 1 .. 15
Shr32(x, n) == U32(x.hi \div (2 ^ n), (x.hi % (2 ^ n)) * (2 ^ (16 - n)) + x.lo \div (2 ^ n))

\* ^x
Not32(x) == U32(65535 - x.hi, 65535 - x.lo)

\* crc32.IEEE, the reversed polynomial 0xedb88320
IEEE == U32(60856, 33568)

\* The table of crc32.IEEETable: entry i is i taken through 8 rounds of
\* "if crc&1 == 1 { crc = (crc >> 1) ^ poly } else { crc >>= 1 }".
RECURSIVE tableRounds(_, _)
tableRounds(crc, n) ==
    IF n = 0 THEN crc
    ELSE tableRounds(IF crc.lo % 2 = 1 THEN Xor32(Shr32(crc, 1), IEEE) ELSE Shr32(crc, 1),
                     n - 1)

IEEETable == [i \in Bytes |-> tableRounds(U32(0, i), 8)]

\* for each octet v: crc = tab[byte(crc)^v] ^ (crc >> 8)
\* (the register and the rest of the data are bound as values at each
\* octet, so that they are evaluated once)
RECURSIVE crcUpdate(_, _)
crcUpdate(crc, data) ==
    IF data = <<>> THEN crc
    ELSE CHOOSE r \in
            {crcUpdate(c, d) :
                c \in {Xor32(IEEETable[XorByte[crc.lo % 256][Head(data)]], Shr32(crc, 8))},
                d \in {Tail(data)}} : TRUE

\* crc32.ChecksumIEEE(data): the register starts and ends complemented.
ChecksumIEEE(data) == Not32(crcUpdate(Not32(U32(0, 0)), data))

\* binary.BigEndian.PutUint32
PutUint32(v) == <<v.hi \div 256, v.hi % 256, v.lo \div 256, v.lo % 256>>

\* binary.BigEndian.Uint32
Uint32(b) == U32(b[1] * 256 + b[2], b[3] * 256 + b[4])

I64(hi, mid, lo) == [hi |-> hi, mid |-> mid, lo |-> lo]

\* binary.BigEndian.PutUint64(uint64(t)): the conversion to uint64 keeps the
\* bits, so the top limb is taken modulo 2^16.
PutUint64(t) ==
    LET top == t.hi % 65536
    IN  <<top \div 256, top % 256,
          t.mid \div 65536, (t.mid \div 256) % 256, t.mid % 256,
          t.lo \div 65536, (t.lo \div 256) % 256, t.lo % 256>>

\* int64(binary.BigEndian.Uint64(b)): a set top bit makes the value negative.
Int64OfUint64(b) ==
    LET top == b[1] * 256 + b[2]
    IN  I64(IF top >= 32768 THEN top - 65536 ELSE top,
            b[3] * 65536 + b[4] * 256 + b[5],
            b[6] * 65536 + b[7] * 256 + b[8])

ZeroPacket ==
    [Version |-> 0, NodeUUID |-> [i \in 1 .. 16 |-> 0], Timestamp |-> I64(0, 0, 0),
     StatusCode |-> 0, Checksum |-> U32(0, 0)]

\* The 26 data octets of a frame.
PackData(p) == <<p.Version>> \o p.NodeUUID \o PutUint64(p.Timestamp) \o <<p.StatusCode>>

\* Encode as it was before the checksum: the data octets, the rest of the
\* buffer left zero.
EncodeNoChecksum(p) ==
    [buf |-> PackData(p) \o [i \in 1 .. PacketSize - PacketDataSize |-> 0],
     p |-> p, err |-> "nil"]

\* Packet.Encode: the buffer, the packet with its Checksum field set, the error.
Encode(p) ==
    LET data == PackData(p)
        checksum == ChecksumIEEE(SubSeq(data, 1, PacketDataSize))
    IN  [buf |-> data \o PutUint32(checksum),
         p |-> [p EXCEPT !.Checksum = checksum],
         err |-> "nil"]

ErrSize == "invalid packet size"
ErrChecksum == "packet checksum verification failed - packet may be corrupted"

\* The fields of a buffer of PacketSize octets.
Fields(data) ==
    [Version |-> data[1],
     NodeUUID |-> SubSeq(data, 2, 17),
     Timestamp |-> Int64OfUint64(SubSeq(data, 18, 25)),
     StatusCode |-> data[26],
     Checksum |-> Uint32(SubSeq(data, PacketDataSize + 1, PacketSize))]

\* Decode with the checksum compared first and the length after it.
DecodeChecksumFirst(data) ==
    IF /\ Len(data) >= PacketSize
       /\ Uint32(SubSeq(data, PacketDataSize + 1, PacketSize))
             # ChecksumIEEE(SubSeq(data, 1, PacketDataSize))
    THEN [p |-> ZeroPacket, isNil |-> TRUE, err |-> ErrChecksum]
    ELSE IF Len(data) # PacketSize
    THEN [p |-> ZeroPacket, isNil |-> TRUE, err |-> ErrSize]
    ELSE [p |-> Fields(data), isNil |-> FALSE, err |-> "nil"]

\* Decode as it was before the checksum: the length check only.
DecodeUnverified(data) ==
    IF Len(data) # PacketSize
    THEN [p |-> ZeroPacket, isNil |-> TRUE, err |-> ErrSize]
    ELSE [p |-> Fields(data), isNil |-> FALSE, err |-> "nil"]

\* Decode refusing a version other than Version.
DecodeVersionChecked(data) ==
    IF Len(data) = PacketSize /\ data[1] # Version
    THEN [p |-> ZeroPacket, isNil |-> TRUE, err |-> "unsupported version"]
    ELSE DecodeChecksumFirst(data)

\* Decode: (nil, size error), (nil, checksum error) or (packet, nil).
Decode(data) ==
    IF Len(data) # PacketSize
    THEN [p |-> ZeroPacket, isNil |-> TRUE, err |-> ErrSize]
    ELSE LET receivedChecksum == Uint32(SubSeq(data, PacketDataSize + 1, PacketSize))
             expectedChecksum == ChecksumIEEE(SubSeq(data, 1, PacketDataSize))
         IN  IF receivedChecksum # expectedChecksum
             THEN [p |-> ZeroPacket, isNil |-> TRUE, err |-> ErrChecksum]
             ELSE [p |-> Fields(data), isNil |-> FALSE, err |-> "nil"]

\* "round-trip-test" in a [16]byte, and the all-ones id.
RoundTripUUID == <<114, 111, 117, 110, 100, 45, 116, 114, 105, 112, 45, 116, 101, 115, 116, 0>>
OnesUUID == [i \in 1 .. 16 |-> 255]

\* -1, 1000000000, 3000000000, 1700000000000000000, the largest and the
\* smallest int64.
Timestamps ==
    {I64(-1, 16777215, 16777215), I64(0, 59, 10144256), I64(0, 178, 13655552),
     I64(6039, 10288694, 2752512), I64(32767, 16777215, 16777215), I64(-32768, 0, 0)}

Packets ==
    {[Version |-> Version, NodeUUID |-> id, Timestamp |-> ts, StatusCode |-> sc,
      Checksum |-> U32(0, 0)] :
        id \in {RoundTripUUID, OnesUUID}, ts \in Timestamps, sc \in {0, 1, 2}}

NoResult == [p |-> ZeroPacket, isNil |-> TRUE, err |-> "none"]

\* data, err := pkt.Encode()
EncodeStep ==
    /\ codec.pc = "new"
    /\ codec' = [codec EXCEPT !.pc = "encoded", !.buf = Encode(codec.pkt).buf,
                              !.sent = Encode(codec.pkt).p]
    /\ UNCHANGED <<clock, tickerC, shards, callers, reaper, counter, timedOutLog,
                   created, lastUpdateAt, telemetry, netVars, engine, main, lister, remote>>

\* One bit of one octet of the frame is inverted on the way.
FlipBit(i, k) ==
    /\ codec.pc = "encoded"
    /\ codec.how = {}
    /\ codec' = [codec EXCEPT !.buf[i + 1] = XorByte[@][2 ^ k], !.how = {"flip"}]
    /\ UNCHANGED <<clock, tickerC, shards, callers, reaper, counter, timedOutLog,
                   created, lastUpdateAt, telemetry, netVars, engine, main, lister, remote>>

\* Only the first n octets of the frame arrive.
Truncate(n) ==
    /\ codec.pc = "encoded"
    /\ codec.how = {}
    /\ codec' = [codec EXCEPT !.buf = SubSeq(@, 1, n), !.how = {"cut"}]
    /\ UNCHANGED <<clock, tickerC, shards, callers, reaper, counter, timedOutLog,
                   created, lastUpdateAt, telemetry, netVars, engine, main, lister, remote>>

\* The frame, intact or with a bit inverted, arrives with k octets after it.
Extend(k) ==
    /\ codec.pc = "encoded"
    /\ codec.how \subseteq {"flip"}
    /\ codec' = [codec EXCEPT !.buf = @ \o [j \in 1 .. k |-> 0],
                              !.how = @ \cup {"pad"}]
    /\ UNCHANGED <<clock, tickerC, shards, callers, reaper, counter, timedOutLog,
                   created, lastUpdateAt, telemetry, netVars, engine, main, lister, remote>>

\* decoded, err := Decode(data)
DecodeStep ==
    /\ codec.pc = "encoded"
    /\ codec' = [codec EXCEPT !.pc = "decoded", !.res = Decode(codec.buf)]
    /\ UNCHANGED <<clock, tickerC, shards, callers, reaper, counter, timedOutLog,
                   created, lastUpdateAt, telemetry, netVars, engine, main, lister, remote>>

(***************************************************************************)
(* The severity classifier.  A float64 is a number or NaN; the numbers     *)
(* used are whole percents.  Every ordered comparison with a NaN is false. *)
(***************************************************************************)
F64(v) == [nan |-> FALSE, v |-> v]
NaN == [nan |-> TRUE, v |-> 0]

\* a > b on float64
GT(a, b) == ~a.nan /\ ~b.nan /\ a.v > b.v

\* a >= b on float64
GE(a, b) == ~a.nan /\ ~b.nan /\ a.v >= b.v

StatusOK == 0
StatusWarn == 1
StatusCritical == 2

Metrics(cpu, ram, disk) == [CPUPercent |-> cpu, RAMPercent |-> ram, DiskPercent |-> disk]

Thresholds(cw, cc, rw, rc, dw, dc) ==
    [CPUWarn |-> cw, CPUCritical |-> cc, RAMWarn |-> rw, RAMCritical |-> rc,
     DiskWarn |-> dw, DiskCritical |-> dc]

DefaultThresholds == Thresholds(F64(70), F64(90), F64(80), F64(95), F64(85), F64(95))

\* The warning conditions tested before the critical ones.
CalculateStatusWarnFirst(metrics, thresholds) ==
    IF \/ GE(metrics.CPUPercent, thresholds.CPUWarn)
       \/ GE(metrics.RAMPercent, thresholds.RAMWarn)
       \/ GE(metrics.DiskPercent, thresholds.DiskWarn)
    THEN StatusWarn
    ELSE IF \/ GE(metrics.CPUPercent, thresholds.CPUCritical)
            \/ GE(metrics.RAMPercent, thresholds.RAMCritical)
            \/ GE(metrics.DiskPercent, thresholds.DiskCritical)
    THEN StatusCritical
    ELSE StatusOK

CalculateStatus(metrics, thresholds) ==
    IF \/ GE(metrics.CPUPercent, thresholds.CPUCritical)
       \/ GE(metrics.RAMPercent, thresholds.RAMCritical)
       \/ GE(metrics.DiskPercent, thresholds.DiskCritical)
    THEN StatusCritical
    ELSE IF \/ GE(metrics.CPUPercent, thresholds.CPUWarn)
            \/ GE(metrics.RAMPercent, thresholds.RAMWarn)
            \/ GE(metrics.DiskPercent, thresholds.DiskWarn)
    THEN StatusWarn
    ELSE StatusOK

\* The metric values tried: the default thresholds, values below, between
\* and above them, and NaN.
Percents == {F64(0), F64(70), F64(75), F64(80), F64(85), F64(90), F64(95), F64(98)}
MetricValues == Percents \cup {NaN}

\* The defaults; thresholds with every warn level above its critical level;
\* thresholds with a NaN among them.
ThresholdSets ==
    {DefaultThresholds,
     Thresholds(F64(90), F64(70), F64(95), F64(80), F64(95), F64(85)),
     Thresholds(F64(70), NaN, F64(80), F64(95), NaN, F64(95))}

MetricNames == {"CPUPercent", "RAMPercent", "DiskPercent"}

\* status := CalculateStatus(metrics, thresholds)
Classify ==
    /\ telemetry.pc = "sampled"
    /\ telemetry' = [telemetry EXCEPT
                        !.pc = "classified",
                        !.status = CalculateStatus(telemetry.metrics, telemetry.thresholds)]
    /\ UNCHANGED <<clock, tickerC, shards, callers, reaper, counter, timedOutLog,
                   created, lastUpdateAt, codec, netVars, engine, main, lister,
                   remote>>

\* The next sample has one metric higher and the other two as they were.
RaiseMetric(name, v) ==
    /\ telemetry.pc = "classified"
    /\ telemetry.raises < MaxRaises
    /\ GT(v, telemetry.metrics[name])
    /\ telemetry' = [telemetry EXCEPT
                        !.pc = "sampled",
                        !.raises = @ + 1,
                        !.before = [metrics |-> telemetry.metrics,
                                    status |-> telemetry.status, any |-> TRUE],
                        !.metrics[name] = v]
    /\ UNCHANGED <<clock, tickerC, shards, callers, reaper, counter, timedOutLog,
                   created, lastUpdateAt, codec, netVars, engine, main, lister,
                   remote>>

(***************************************************************************)
(* The UDP engine (UDPNode): the receive loop of Start, the workers, and   *)
(* BroadcastHeartbeat.  A *net.UDPAddr is an IP and a port, one digit      *)
(* each; its String() is "ip:port", the key of the registry and of peers.  *)
(***************************************************************************)
\* runtime.NumCPU(), at least 2
workerCount == IF NumCPU < 2 THEN 2 ELSE NumCPU

\* The capacity without the factor 2.
packetChanSizeOfWorkers == workerCount

packetChanSize == workerCount * 2

Workers == 1 .. workerCount
WorkerId(w) == [kind |-> "worker", id |-> w]

UDPAddr(ip, port) == [IP |-> ip, Port |-> port]

\* addr.String()
AddrString(addr) == <<48 + addr.IP, 58, 48 + addr.Port>>

\* The host of "l:port" (octet 108) is a name: the resolver looks it up, and
\* it names the host whose IP is 1.
LookupIP(host) == IF host = 108 THEN 1 ELSE host - 48

\* net.ResolveUDPAddr("udp", addrStr)
ResolveUDPAddr(addrStr) == UDPAddr(LookupIP(addrStr[1]), addrStr[3] - 48)

IdleWorker == [pc |-> "idle", addr |-> UDPAddr(0, 0), pkt |-> ZeroPacket]

IdleBroadcast ==
    [pc |-> "idle", calls |-> 0, data |-> <<>>, snapshot |-> <<>>, todo |-> {},
     sends |-> <<>>, result |-> "none"]

\* bufferPool.New: make([]byte, protocol.PacketSize)
NewBuffer == [i \in 1 .. PacketSize |-> 0]

\* stopChan and conn as NewUDPNode makes them, packetChan not closed, Start
\* not yet called.  unblocked remembers that a ReadFromUDP was ended by the
\* close of the socket.  buf is the receive buffer that bufferPool hands
\* out and takes back, borrowed the number of buffers out of the pool.
NewEngine ==
    [stopChan |-> "open", conn |-> "open", packetChanClosed |-> FALSE, loop |-> "new",
     unblocked |-> FALSE, buf |-> NewBuffer, borrowed |-> 0]

\* The state NewUDPNode returns, and no goroutine started yet.
InitUDPNode ==
    /\ engine = NewEngine
    /\ packetChan = <<>>
    /\ peers = <<>>
    /\ workers = [w \in Workers |-> IdleWorker]
    /\ bcast = IdleBroadcast
    /\ netlog = [reads |-> 0, queued |-> 0, dropped |-> 0, decodeFailed |-> 0,
                 sendFailed |-> 0, handled |-> 0,
                 addPeer |-> [addrStr |-> <<>>, err |-> "none"],
                 lastQueued |-> <<>>]

\* n, addr, err := u.conn.ReadFromUDP(buf) with buf of PacketSize octets: an
\* I/O error, or the datagram copied into buf as far as buf reaches, n the
\* number of octets copied.  (Where the platform refuses a datagram longer
\* than the buffer, that read is one of the I/O errors.)
ReadFromUDP(dgram, ioErr) ==
    IF ioErr
    THEN [n |-> 0, data |-> <<>>, err |-> TRUE]
    ELSE LET n == IF Len(dgram) < PacketSize THEN Len(dgram) ELSE PacketSize
         IN  [n |-> n, data |-> SubSeq(dgram, 1, n), err |-> FALSE]

\* buf after the read: the octets copied over its head, the rest as it was.
ReadInto(buf, r) == r.data \o SubSeq(buf, r.n + 1, Len(buf))

\* A slice that shares the pool buffer instead of owning its octets.
SharedBuffer == <<-1>>

\* packetData := buf[:n]
packetDataShared(buf, n) == SharedBuffer

\* packetData := make([]byte, protocol.PacketSize); copy(packetData, buf[:n]),
\* with n = PacketSize
packetData(buf, n) == SubSeq(buf, 1, n)

\* The octets a slice shows when it is read.
JobData(job) == IF job.data = SharedBuffer THEN engine.buf ELSE job.data

\* u.bufferPool.Put(buf) on the path the loop takes after the read: once on
\* the error path, once on the wrong-size path, once after the copy.
PutsOnPath(r) == IF r.err THEN 1 ELSE IF r.n # PacketSize THEN 1 ELSE 1

\* Start up to its loop: the line logged and startWorkers().
Start ==
    /\ engine.loop = "new"
    /\ engine' = [engine EXCEPT !.loop = "select"]
    /\ UNCHANGED <<clock, tickerC, shards, callers, reaper, counter, timedOutLog,
                   created, lastUpdateAt, codec, telemetry, netVars, main, lister,
                   remote>>

\* The select taking the stop case, closing packetChan and yet going on to
\* read.
LoopSelectReadsOn ==
    /\ engine.loop = "select"
    /\ engine' = IF engine.stopChan = "closed"
                 THEN [engine EXCEPT !.packetChanClosed = TRUE, !.loop = "read"]
                 ELSE [engine EXCEPT !.loop = "read"]
    /\ UNCHANGED <<clock, tickerC, shards, callers, reaper, counter, timedOutLog,
                   created, lastUpdateAt, codec, telemetry, netVars, main, lister,
                   remote>>

\* The select at the head of the loop.  With stopChan closed its case is
\* ready and is taken: close(u.packetChan), and on to u.workerWg.Wait().
\* Otherwise the default case is taken, up to the call of ReadFromUDP.
LoopSelect ==
    /\ engine.loop = "select"
    /\ engine' = IF engine.stopChan = "closed"
                 THEN [engine EXCEPT !.packetChanClosed = TRUE, !.loop = "wait"]
                 ELSE [engine EXCEPT !.loop = "read"]
    /\ UNCHANGED <<clock, tickerC, shards, callers, reaper, counter, timedOutLog,
                   created, lastUpdateAt, codec, telemetry, netVars, main, lister,
                   remote>>

\* The rest of the default case, from the return of ReadFromUDP on: on an
\* error or a wrong size continue; else queue the copy for the workers, or
\* log and drop it when the channel is full.  The call returns when a
\* datagram arrives or fails to be read; on the closed socket it returns
\* an error.  rcvd remembers with the packet the octets that were read for
\* it, netlog.lastQueued the octets last queued for each source address.
Receive(dgram, addr, ioErr) ==
    LET r == ReadFromUDP(dgram, ioErr)
        buf == ReadInto(engine.buf, r)
    IN
    /\ engine.loop = "read"
    /\ engine.conn = "closed" => ioErr
    /\ engine' = [engine EXCEPT !.loop = "select",
                                !.unblocked = @ \/ engine.conn = "closed",
                                !.buf = buf,
                                !.borrowed = @ + 1 - PutsOnPath(r)]
    /\ IF r.err \/ r.n # PacketSize
       THEN /\ netlog' = [netlog EXCEPT !.reads = @ + 1]
            /\ UNCHANGED packetChan
       ELSE IF Len(packetChan) < packetChanSize
       THEN /\ packetChan' = Append(packetChan, [data |-> packetData(buf, r.n),
                                                  addr |-> addr, rcvd |-> r.data])
            /\ netlog' = [netlog EXCEPT !.reads = @ + 1, !.queued = @ + 1,
                                        !.lastQueued = Put(@, AddrString(addr), r.data)]
       ELSE /\ netlog' = [netlog EXCEPT !.reads = @ + 1, !.dropped = @ + 1]
            /\ UNCHANGED packetChan
    /\ UNCHANGED <<clock, tickerC, shards, callers, reaper, counter, timedOutLog,
                   created, lastUpdateAt, codec, telemetry, peers, workers, bcast,
                   main, lister, remote>>

\* u.workerWg.Wait() returning, and with it Start.
LoopWait ==
    /\ engine.loop = "wait"
    /\ \A w \in Workers : workers[w].pc = "exited"
    /\ engine' = [engine EXCEPT !.loop = "returned"]
    /\ UNCHANGED <<clock, tickerC, shards, callers, reaper, counter, timedOutLog,
                   created, lastUpdateAt, codec, telemetry, netVars, main, lister,
                   remote>>

\* Stop without the second statement: the socket left open.
AfterStopSignalOnly == [engine EXCEPT !.stopChan = "closed"]

\* Stop closing the socket and leaving stopChan open.
AfterStopConnOnly == [engine EXCEPT !.conn = "closed"]

\* The engine after Stop(): close(u.stopChan); u.conn.Close()
AfterStop == [engine EXCEPT !.stopChan = "closed", !.conn = "closed"]

\* Stop(), called once.
Stop ==
    /\ engine.stopChan = "open"
    /\ engine' = AfterStop
    /\ UNCHANGED <<clock, tickerC, shards, callers, reaper, counter, timedOutLog,
                   created, lastUpdateAt, codec, telemetry, netVars, main, lister,
                   remote>>

\* The range over packetChan of worker(id) ending: the channel closed and
\* nothing left in it; the deferred u.workerWg.Done().
WorkerExit(w) ==
    /\ workers[w].pc = "idle"
    /\ engine.packetChanClosed
    /\ packetChan = <<>>
    /\ workers' = [workers EXCEPT ![w].pc = "exited"]
    /\ UNCHANGED <<clock, tickerC, shards, callers, reaper, counter, timedOutLog,
                   created, lastUpdateAt, codec, telemetry, packetChan, peers, bcast,
                   netlog, engine, main, lister, remote>>

\* job := <-u.packetChan; pkt, err := protocol.Decode(job.data); on an error
\* log "Failed to decode packet" and return to the loop.  netlog.handled
\* counts the calls of handlePacket that have returned.
WorkerTake(w) ==
    LET job == Head(packetChan)
        res == Decode(JobData(job))
    IN  /\ workers[w].pc = "idle"
        /\ packetChan # <<>>
        /\ packetChan' = Tail(packetChan)
        /\ IF res.err # "nil"
           THEN /\ netlog' = [netlog EXCEPT !.decodeFailed = @ + 1, !.handled = @ + 1]
                /\ UNCHANGED workers
           ELSE /\ workers' = [workers EXCEPT
                                  ![w] = [pc |-> "peer", addr |-> job.addr, pkt |-> res.p]]
                /\ UNCHANGED netlog
        /\ UNCHANGED <<clock, tickerC, shards, callers, reaper, counter, timedOutLog,
                       created, lastUpdateAt, codec, telemetry, peers, bcast,
                   engine, main, lister, remote>>

\* The worker going on to the registry without the entry in peers.
WorkerSkipPeer(w) ==
    /\ workers[w].pc = "peer"
    /\ workers' = [workers EXCEPT ![w].pc = "update"]
    /\ UNCHANGED <<clock, tickerC, shards, callers, reaper, counter, timedOutLog,
                   created, lastUpdateAt, codec, telemetry, packetChan, peers, bcast,
                   netlog, engine, main, lister, remote>>

\* u.peersMu.Lock(); u.peers[addrStr] = addr; u.peersMu.Unlock()
WorkerAddPeer(w) ==
    /\ workers[w].pc = "peer"
    /\ peers' = Put(peers, AddrString(workers[w].addr), workers[w].addr)
    /\ workers' = [workers EXCEPT ![w].pc = "update"]
    /\ UNCHANGED <<clock, tickerC, shards, callers, reaper, counter, timedOutLog,
                   created, lastUpdateAt, codec, telemetry, packetChan, bcast, netlog,
                   engine, main, lister, remote>>

\* u.monitor.UpdateWithStatus(addrStr, ...): getShard and shard.mu.Lock()
WorkerLock(w) ==
    LET s == getShard(AddrString(workers[w].addr)) IN
    /\ workers[w].pc = "update"
    /\ CanLock(shards[s].mu)
    /\ shards' = [shards EXCEPT ![s].mu.writer = WorkerId(w)]
    /\ workers' = [workers EXCEPT ![w].pc = "locked"]
    /\ UNCHANGED <<clock, tickerC, callers, reaper, counter, timedOutLog,
                   created, lastUpdateAt, codec, telemetry, packetChan, peers, bcast,
                   netlog, engine, main, lister, remote>>

\* ... its body with pkt.StatusCode and pkt.Timestamp, and the Unlock
WorkerStore(w) ==
    LET a == AddrString(workers[w].addr)
        s == getShard(a)
    IN  /\ workers[w].pc = "locked"
        /\ shards' = [shards EXCEPT
                         ![s].nodes = UpdateWithStatus(@, a, workers[w].pkt.StatusCode,
                                                       workers[w].pkt.Timestamp, clock),
                         ![s].mu.writer = NoHolder]
        /\ created' = [created EXCEPT ![a] =
                          IF a \in DOMAIN shards[s].nodes THEN @ ELSE @ + 1]
        /\ lastUpdateAt' = [lastUpdateAt EXCEPT ![a] = clock]
        /\ workers' = [workers EXCEPT ![w] = IdleWorker]
        /\ lister' = Touch(lister, a, shards'[s].nodes)
        /\ netlog' = [netlog EXCEPT !.handled = @ + 1]
        /\ UNCHANGED <<clock, tickerC, callers, reaper, counter, timedOutLog,
                       codec, telemetry, packetChan, peers, bcast, engine, main,
                   remote>>

NextWorkers ==
    \E w \in Workers : WorkerTake(w) \/ WorkerAddPeer(w) \/ WorkerLock(w) \/ WorkerStore(w)

\* The err of net.ResolveUDPAddr("udp", addrStr): anything but "host:port",
\* the host an IP or a name that resolves.
ResolveError(addrStr) ==
    ~ /\ Len(addrStr) = 3
      /\ addrStr[1] \in (48 .. 57) \cup {108}
      /\ addrStr[2] = 58
      /\ addrStr[3] \in 48 .. 57

\* AddPeer with the entry written before the error is looked at.
AddPeerUnchecked(addrStr) == Put(peers, addrStr, UDPAddr(0, 0))

\* peers after AddPeer(addrStr) has returned an error.
AddPeerFailed(addrStr) == peers

\* AddPeer(addrStr); the argument and the return value of the latest call
\* are kept in netlog.addPeer.
AddPeer(addrStr) ==
    /\ IF ResolveError(addrStr)
       THEN /\ peers' = AddPeerFailed(addrStr)
            /\ netlog' = [netlog EXCEPT !.addPeer = [addrStr |-> addrStr, err |-> "err"]]
       ELSE /\ peers' = Put(peers, addrStr, ResolveUDPAddr(addrStr))
            /\ netlog' = [netlog EXCEPT !.addPeer = [addrStr |-> addrStr, err |-> "nil"]]
    /\ UNCHANGED <<clock, tickerC, shards, callers, reaper, counter, timedOutLog,
                   created, lastUpdateAt, codec, telemetry, packetChan, workers, bcast,
                   engine, main, lister, remote>>

\* The loop over the snapshot left at the first failed send.
RestAfterFailure(todo, k, ok) == IF ok THEN todo \ {k} ELSE {}

\* The entries of the snapshot still to be sent to, after the send to the
\* address of entry k.
Rest(todo, k, ok) == todo \ {k}

\* BroadcastHeartbeat(statusCode) up to the loop: the packet encoded, the
\* peers copied under the read lock, and the return of nil when there are none.
\* The slice gets one element for each key of u.peers: snapshot holds them
\* under their keys, todo the keys whose element has not been sent to.
BroadcastHeartbeat(statusCode) ==
    LET pkt == [Version |-> Version, NodeUUID |-> RoundTripUUID,
                Timestamp |-> I64(0, 0, clock), StatusCode |-> statusCode,
                Checksum |-> U32(0, 0)]
        snap == peers
    IN  [pc |-> IF DOMAIN snap = {} THEN "done" ELSE "send",
         calls |-> bcast.calls + 1,
         data |-> Encode(pkt).buf, snapshot |-> snap, todo |-> DOMAIN snap,
         sends |-> <<>>,
         result |-> IF DOMAIN snap = {} THEN "nil" ELSE "none"]

\* A call of BroadcastHeartbeat(statusCode) by itself.
BroadcastSnapshot(statusCode) ==
        /\ bcast.pc \in {"idle", "done"}
        /\ bcast.calls < MaxBroadcasts
        /\ bcast' = BroadcastHeartbeat(statusCode)
        /\ UNCHANGED <<clock, tickerC, shards, callers, reaper, counter, timedOutLog,
                       created, lastUpdateAt, codec, telemetry, packetChan, peers,
                       workers, netlog, engine, main, lister, remote>>

\* One turn of the loop: u.conn.WriteToUDP(data, addr), a log line when it
\* fails; after the last entry return nil.  The turn is that of an element
\* holding addr (the elements come in the order of the map's iteration).
BroadcastSend(addr, ok) ==
    LET to == {k \in bcast.todo : bcast.snapshot[k] = addr}
        rest == Rest(bcast.todo, CHOOSE k \in to : TRUE, ok)
    IN
    /\ bcast.pc = "send"
    /\ to # {}
    /\ bcast' = [bcast EXCEPT
                    !.sends = Append(@, [addr |-> addr, data |-> bcast.data, ok |-> ok]),
                    !.todo = rest,
                    !.pc = IF rest = {} THEN "done" ELSE "send",
                    !.result = IF rest = {} THEN "nil" ELSE "none"]
    /\ netlog' = [netlog EXCEPT !.sendFailed = IF ok THEN @ ELSE @ + 1]
    /\ UNCHANGED <<clock, tickerC, shards, callers, reaper, counter, timedOutLog,
                   created, lastUpdateAt, codec, telemetry, packetChan, peers, workers,
                   engine, main, lister, remote>>

(***************************************************************************)
(* The orchestrator: main() after the flags are parsed and the engine is   *)
(* made.  The socket is bound to 0.0.0.0 and the port, so the key of the   *)
(* self-entry is the String() of that address; a datagram never has the    *)
(* unspecified address as its source.                                      *)
(***************************************************************************)
\* simpleHash(s): 16 octets, the first ones those of s, the rest zero
simpleHash(s) == [i \in 1 .. 16 |-> IF i <= Len(s) THEN s[i] ELSE 0]

\* rand.Read left out: the octets after the first n stay as they are.
randReadNothing(uuid, n, random) == uuid

\* rand.Read(uuid[n:]) with the octets the generator gives, random[i] for
\* the octet at place i
randRead(uuid, n, random) == [i \in 1 .. 16 |-> IF i <= n THEN uuid[i] ELSE random[i]]

\* nodeID after "if nodeID == "" { ... }": the hostname, or "unknown" when
\* os.Hostname() fails
NodeIDOrHostname(nodeID, hostname, hostErr) ==
    IF nodeID # <<>> THEN nodeID
    ELSE IF hostErr THEN <<117, 110, 107, 110, 111, 119, 110>> ELSE hostname

\* generateNodeUUID(nodeID)
generateNodeUUID(nodeID, hostname, hostErr, random) ==
    LET id == NodeIDOrHostname(nodeID, hostname, hostErr)
        uuid == simpleHash(id)
    IN  IF Len(id) < 16 THEN randRead(uuid, Len(id), random) ELSE uuid

\* Processes started with the same -node-id flag on hosts of the same name,
\* each at its call of generateNodeUUID: the ids derived so far, and what
\* the random generator gave each.
FlagsParsed(nodeID, hostname, hostErr) ==
    [pc |-> "flags", nodeID |-> nodeID, hostname |-> hostname, hostErr |-> hostErr,
     uuids |-> <<>>, randoms |-> <<>>]

\* nodeUUID := generateNodeUUID(*nodeID) in the next process
GenerateNodeUUID(random) ==
    /\ main.pc = "flags"
    /\ Len(main.uuids) < NumProcesses
    /\ main' = [main EXCEPT
                   !.uuids = Append(@, generateNodeUUID(main.nodeID, main.hostname,
                                                        main.hostErr, random)),
                   !.randoms = Append(@, random)]
    /\ UNCHANGED <<clock, tickerC, shards, callers, reaper, counter, timedOutLog,
                   created, lastUpdateAt, codec, telemetry, netVars, engine, lister,
                   remote>>

\* The address under which peers see the sender of a frame, taken as the key
\* of the self-entry.
LocalAddrAsSeen == AddrString(UDPAddr(1, 2))

\* udpNode.Conn().LocalAddr().String()
LocalAddr == AddrString(UDPAddr(0, 9))

NoSeedCall == [called |-> FALSE, sampled |-> FALSE, sends |-> <<>>, err |-> "none"]

\* main() at the seed bootstrap, with the -seed-node flag.
NewMain(seedNode) ==
    [pc |-> "seed", seedNode |-> seedNode, seed |-> NoSeedCall, ticks |-> 0,
     skipped |-> 0, sampled |-> FALSE, statusCode |-> 0]

\* The second instance of a two-instance run: a process of the same program
\* at another address, which sends one frame per heartbeat tick from its
\* socket until it is stopped (main.go:108-111).
RemoteAddr == UDPAddr(1, 2)

RemoteRunning == [running |-> TRUE, stoppedAt |-> -1]

InitMain ==
    /\ main = NewMain(<<>>)
    /\ remote = RemoteRunning

\* SendToSeedNode(addrStr, statusCode): resolve addrStr, encode a frame,
\* send it once, and add the address to the book when the send succeeded.
\* The result: the error returned, the send attempted, and peers.
SendToSeedNode(addrStr, statusCode, sendOk) ==
    LET pkt == [Version |-> Version, NodeUUID |-> RoundTripUUID,
                Timestamp |-> I64(0, 0, clock), StatusCode |-> statusCode,
                Checksum |-> U32(0, 0)]
        addr == ResolveUDPAddr(addrStr)
        send == [addr |-> addr, data |-> Encode(pkt).buf, ok |-> sendOk]
    IN  IF ResolveError(addrStr)
        THEN [err |-> "resolve", sends |-> <<>>, peers |-> peers]
        ELSE IF ~sendOk
        THEN [err |-> "send", sends |-> <<send>>, peers |-> peers]
        ELSE [err |-> "nil", sends |-> <<send>>, peers |-> Put(peers, addrStr, addr)]

\* metrics = &telemetry.Metrics{}
ZeroMetrics == Metrics(F64(0), F64(0), F64(0))

\* if *seedNode != "" { ... }: sample, classify, SendToSeedNode, log.  m and
\* ok are what CollectMetrics returns, sendOk whether the send succeeds.
SeedBootstrap(m, ok, sendOk) ==
    LET metrics == IF ok THEN m ELSE ZeroMetrics
        statusCode == CalculateStatus(metrics, DefaultThresholds)
        r == SendToSeedNode(main.seedNode, statusCode, sendOk)
    IN  /\ main.pc = "seed"
        /\ IF main.seedNode = <<>>
           THEN /\ main' = [main EXCEPT !.pc = "loop"]
                /\ UNCHANGED peers
           ELSE /\ main' = [main EXCEPT
                                !.pc = "loop",
                                !.seed = [called |-> TRUE, sampled |-> ok,
                                          sends |-> r.sends,
                                          err |-> r.err]]
                /\ peers' = r.peers
        /\ UNCHANGED <<clock, tickerC, shards, callers, reaper, counter, timedOutLog,
                       created, lastUpdateAt, codec, telemetry, packetChan, workers,
                       bcast, netlog, engine, lister, remote>>

\* case <-heartbeatTicker.C: sample; on an error log and continue; else
\* classify, write the self-entry and call BroadcastHeartbeat, which is
\* left here with its snapshot taken (BroadcastSend goes on from there).
HeartbeatTick(m, ok) ==
    LET statusCode == CalculateStatus(IF ok THEN m ELSE ZeroMetrics, DefaultThresholds)
        s == getShard(LocalAddr)
    IN  /\ main.pc = "loop"
        /\ bcast.pc \in {"idle", "done"}
        /\ main.ticks < MaxTicks
        /\ IF ~ok
           THEN /\ main' = [main EXCEPT !.ticks = @ + 1, !.skipped = @ + 1,
                                        !.sampled = FALSE]
                /\ UNCHANGED <<shards, created, lastUpdateAt, bcast, lister>>
           ELSE /\ CanLock(shards[s].mu)
                /\ main' = [main EXCEPT !.ticks = @ + 1, !.sampled = ok,
                                        !.statusCode = statusCode]
                /\ shards' = [shards EXCEPT
                                 ![s].nodes = UpdateWithTelemetry(@, LocalAddr,
                                     m.CPUPercent.v, m.RAMPercent.v, m.DiskPercent.v,
                                     statusCode, clock)]
                /\ created' = [created EXCEPT ![LocalAddr] =
                                  IF LocalAddr \in DOMAIN shards[s].nodes THEN @ ELSE @ + 1]
                /\ lastUpdateAt' = [lastUpdateAt EXCEPT ![LocalAddr] = clock]
                /\ bcast' = BroadcastHeartbeat(statusCode)
                /\ lister' = Touch(lister, LocalAddr, shards'[s].nodes)
        /\ UNCHANGED <<clock, tickerC, callers, reaper, counter, timedOutLog,
                       codec, telemetry, packetChan, peers, workers, netlog, engine,
                   remote>>

\* case <-sigChan: log and udpNode.Stop()
Signal ==
    /\ main.pc = "loop"
    /\ bcast.pc \in {"idle", "done"}
    /\ engine.stopChan = "open"
    /\ engine' = AfterStop
    /\ main' = [main EXCEPT !.pc = "stopped"]
    /\ UNCHANGED <<clock, tickerC, shards, callers, reaper, counter, timedOutLog,
                   created, lastUpdateAt, codec, telemetry, netVars, lister, remote>>

\* ... and return: the deferred calls, and main returning ends the process
\* and every goroutine with it.
MainReturn ==
    /\ main.pc = "stopped"
    /\ main' = [main EXCEPT !.pc = "exited"]
    /\ UNCHANGED <<clock, tickerC, shards, callers, reaper, counter, timedOutLog,
                   created, lastUpdateAt, codec, telemetry, netVars, engine, lister,
                   remote>>

\* The process runs: main has not returned.
Alive == main.pc # "exited"

(***************************************************************************)
(* The registry with its reaper and concurrent writers.                    *)
(***************************************************************************)
\* The j-th peer of emitter e: hosts "3", "4", ... and ports "1", "2", ...
\* "3:1" and "4:2" fall in shard 11, "3:2" and "4:1" in shard 14.
EmitterAddr(e, j) == <<50 + e, 58, 48 + j>>

Emitters == 1 .. NumEmitters

ConvAddrs == {EmitterAddr(e, j) : e \in Emitters, j \in 1 .. UpdatesPerEmitter}

AllAddrs == {Addr12, Addr38, Addr17, Addr11, LocalAddr} \cup ConvAddrs

InitMonitor(goroutines) ==
    /\ clock = 0
    /\ tickerC = 0
    /\ shards = NewMonitor
    /\ callers = [p \in goroutines |-> IdleCaller]
    /\ reaper = [pc |-> "wait", i |-> 0, todo |-> {}, passStart |-> -1]
    /\ counter = [pc |-> "idle", i |-> 0, total |-> 0, result |-> 0, atStart |-> 0]
    /\ timedOutLog = [a \in AllAddrs |-> 0]
    /\ created = [a \in AllAddrs |-> 0]
    /\ lastUpdateAt = [a \in AllAddrs |-> -1]
    /\ lister = IdleLister

InitWith(goroutines) ==
    /\ InitMonitor(goroutines)
    /\ InitUDPNode
    /\ InitMain
    /\ codec = <<>>
    /\ telemetry = <<>>

NextReg(addrs, ops) ==
    \/ \E p \in Callers, a \in addrs : UpdateLock(p, a)
    \/ \E p \in Callers, op \in ops : UpdateStore(p, op)
    \/ ReaperTick
    \/ ReaperLock
    \/ \E a \in addrs : ReaperExamine(a)
    \/ ReaperUnlock

\* Two peers, in the first and in the last shard, refreshed by Update.
RegAddrs == {Addr12, Addr17}
RegOps == {OpUpdate(a) : a \in RegAddrs}

Init == InitWith(Callers)

Next == Tick \/ NextReg(RegAddrs, RegOps)

Spec == Init /\ [][Next]_vars

LastSeenOf(a) == GetNodeInfo(a).info.LastSeen

(***************************************************************************)
(* One peer written by all three writers, with sender timestamps that are  *)
(* zero, far in the past and far in the future of the local clock.         *)
(***************************************************************************)
SenderTimes == {0, -7, 99}

SkewAddrs == {Addr12}

SkewOps ==
    {OpUpdate(a) : a \in SkewAddrs}
    \cup {OpStatus(a, 1, ts) : a \in SkewAddrs, ts \in SenderTimes}
    \cup {OpTelemetry(a, 75, 85, 90, 2) : a \in SkewAddrs}
    \cup {OpTelemetry(a, 10, 20, 30, 0) : a \in SkewAddrs}

NextSkew == Tick \/ NextReg(SkewAddrs, SkewOps)

SpecSkew == Init /\ [][NextSkew]_vars

(***************************************************************************)
(* One peer kept alive: the clock does not pass a moment at which the      *)
(* latest update of the peer would be Timeout or more ago, that is, the    *)
(* next update always comes less than Timeout after the previous one.      *)
(***************************************************************************)
LiveAddrs == {Addr17}

LiveOps ==
    {OpUpdate(a) : a \in LiveAddrs}
    \cup {OpStatus(a, 1, ts) : a \in LiveAddrs, ts \in SenderTimes}

TickLive ==
    /\ \A a \in LiveAddrs :
          lastUpdateAt[a] >= 0 => (clock + 1) - lastUpdateAt[a] < Timeout
    /\ Tick

NextLive == TickLive \/ NextReg(LiveAddrs, LiveOps)

SpecLive == Init /\ [][NextLive]_vars

(***************************************************************************)
(* No reaper: callers writing three peers, two of them in one shard, while *)
(* GetNodeCount runs.                                                      *)
(***************************************************************************)
CountAddrs == {Addr12, Addr38, Addr17}

CountOps ==
    {OpUpdate(a) : a \in CountAddrs} \cup {OpStatus(a, 1, 99) : a \in CountAddrs}

NextNoReaper ==
    \/ \E p \in Callers, a \in CountAddrs : UpdateLock(p, a)
    \/ \E p \in Callers, op \in CountOps : UpdateStore(p, op)
    \/ NextCount

SpecCount == Init /\ [][NextNoReaper]_vars

(***************************************************************************)
(* No reaper: NumEmitters emitters, each writing UpdatesPerEmitter peers   *)
(* of its own one after the other, then GetNodeCount.                      *)
(***************************************************************************)
\* How many of its peers emitter e has written.
Progress(e) == Cardinality({j \in 1 .. UpdatesPerEmitter : created[EmitterAddr(e, j)] > 0})

EmittersDone == \A e \in Emitters : Progress(e) = UpdatesPerEmitter

InitConv == InitWith(Emitters)

NextConv ==
    \/ \E e \in Emitters :
          /\ Progress(e) < UpdatesPerEmitter
          /\ UpdateLock(e, EmitterAddr(e, Progress(e) + 1))
    \/ \E e \in Emitters, a \in ConvAddrs : UpdateStore(e, OpUpdate(a))
    \/ NextCount

SpecConv == InitConv /\ [][NextConv]_vars

(***************************************************************************)
(* The codec alone: a packet is encoded, the frame is left intact or is    *)
(* damaged or resized on the way, and the buffer is decoded.               *)
(***************************************************************************)
InitCodec ==
    /\ InitMonitor(Callers)
    /\ InitMain
    /\ codec \in {[pc |-> "new", pkt |-> p, sent |-> p, buf |-> <<>>, how |-> {},
                   res |-> NoResult] : p \in Packets}
    /\ telemetry = <<>>
    /\ InitUDPNode

NextCodec ==
    \/ EncodeStep
    \/ \E i \in 0 .. PacketSize - 1, k \in 0 .. 7 : FlipBit(i, k)
    \/ \E n \in 0 .. PacketSize - 1 : Truncate(n)
    \/ \E k \in 1 .. MaxExtra : Extend(k)
    \/ DecodeStep

SpecCodec == InitCodec /\ [][NextCodec]_vars

(***************************************************************************)
(* The classifier alone: a sample is classified, then one metric is raised *)
(* and the new sample is classified under the same thresholds.             *)
(***************************************************************************)
InitClassify ==
    /\ InitMonitor(Callers)
    /\ InitUDPNode
    /\ InitMain
    /\ codec = <<>>
    /\ telemetry \in
          {[pc |-> "sampled", metrics |-> Metrics(c, r, d), thresholds |-> t,
            status |-> StatusOK, raises |-> 0,
            before |-> [metrics |-> Metrics(c, r, d), status |-> StatusOK, any |-> FALSE]] :
              c \in MetricValues, r \in {F64(0), F64(80), F64(98), NaN},
              d \in {F64(0), F64(85), F64(95)}, t \in ThresholdSets}

NextClassify ==
    \/ Classify
    \/ \E name \in MetricNames, v \in Percents : RaiseMetric(name, v)

SpecClassify == InitClassify /\ [][NextClassify]_vars

(***************************************************************************)
(* The engine receiving: datagrams of two sources, sound, damaged, short   *)
(* and long, read by the receive loop and handled by the workers.          *)
(***************************************************************************)
\* The frame of a heartbeat with the given severity and timestamp.
Frame(statusCode, ts) ==
    Encode([Version |-> Version, NodeUUID |-> RoundTripUUID, Timestamp |-> ts,
            StatusCode |-> statusCode, Checksum |-> U32(0, 0)]).buf

FrameWarn == Frame(1, I64(0, 59, 10144256))
FrameCritical == Frame(2, I64(-1, 16777215, 16777215))

\* A frame with its severity octet changed; the first 20 octets of a frame;
\* a frame with one more octet after it; the empty datagram.
FrameDamaged == [FrameWarn EXCEPT ![26] = 0]

NetDatagrams ==
    {FrameWarn, FrameCritical, FrameDamaged, SubSeq(FrameWarn, 1, 20),
     FrameCritical \o <<0>>, <<>>}

Sources == {UDPAddr(1, 2), UDPAddr(1, 7)}

NextNet ==
    \/ Start
    \/ LoopSelect
    \/ \E d \in NetDatagrams, a \in Sources, e \in BOOLEAN :
          netlog.reads < MaxDatagrams /\ Receive(d, a, e)
    \/ NextWorkers

SpecNet == Init /\ [][NextNet]_vars

(***************************************************************************)
(* The engine flooded: more datagrams than the channel holds, the workers  *)
(* taking them or not.                                                     *)
(***************************************************************************)
NextFlood ==
    \/ Start
    \/ LoopSelect
    \/ \E d \in {FrameWarn, FrameDamaged} :
          netlog.reads < FloodDatagrams /\ Receive(d, UDPAddr(1, 2), FALSE)
    \/ NextWorkers

SpecFlood == Init /\ [][NextFlood]_vars

(***************************************************************************)
(* The engine sending: peers added while BroadcastHeartbeat is called.     *)
(***************************************************************************)
NextBroadcast ==
    \/ \E a \in {Addr12, Addr17, Addr38} : AddPeer(a)
    \/ \E sc \in {0, 2} : BroadcastSnapshot(sc)
    \/ \E a \in {ResolveUDPAddr(k) : k \in {Addr12, Addr17, Addr38}}, ok \in BOOLEAN :
          BroadcastSend(a, ok)

SpecBroadcast == Init /\ [][NextBroadcast]_vars

(***************************************************************************)
(* One peer known under two texts: "l:2" given to AddPeer (an -addpeer or  *)
(* seed string with a host name) and "1:2", the String() of the source of  *)
(* a frame that peer sent; BroadcastHeartbeat called meanwhile.            *)
(***************************************************************************)
AddrLocal == <<108, 58, 50>>

NextAlias ==
    \/ \E a \in {AddrLocal, Addr17} : AddPeer(a)
    \/ Start
    \/ LoopSelect
    \/ netlog.reads < MaxPairFrames /\ Receive(FrameWarn, RemoteAddr, FALSE)
    \/ NextWorkers
    \/ \E sc \in {0, 2} : BroadcastSnapshot(sc)
    \/ \E a \in {RemoteAddr, ResolveUDPAddr(Addr17)}, ok \in BOOLEAN :
          BroadcastSend(a, ok)

SpecAlias == Init /\ [][NextAlias]_vars

(***************************************************************************)
(* Frames with a true checksum whose version or severity octet is not one  *)
(* the protocol names, among ordinary and damaged ones.                    *)
(***************************************************************************)
\* Version 2 with severity 9; version 1 with severity 7; version 0 with
\* severity 255.
FrameVersion2 ==
    Encode([Version |-> 2, NodeUUID |-> RoundTripUUID, Timestamp |-> I64(0, 59, 10144256),
            StatusCode |-> 9, Checksum |-> U32(0, 0)]).buf
FrameReserved == Frame(7, I64(0, 59, 10144256))
FrameVersion0 ==
    Encode([Version |-> 0, NodeUUID |-> OnesUUID, Timestamp |-> I64(-1, 16777215, 16777215),
            StatusCode |-> 255, Checksum |-> U32(0, 0)]).buf

OddDatagrams == {FrameWarn, FrameVersion2, FrameReserved, FrameVersion0, FrameDamaged}

NextOdd ==
    \/ Start
    \/ LoopSelect
    \/ \E d \in OddDatagrams, a \in Sources :
          netlog.reads < MaxDatagrams /\ Receive(d, a, FALSE)
    \/ NextWorkers

SpecOdd == Init /\ [][NextOdd]_vars

(***************************************************************************)
(* The engine started and stopped: a few datagrams may arrive while the    *)
(* socket is open, and Stop may be called at any moment.  Every goroutine  *)
(* that can run does run in the end (the receive loop, each worker); the   *)
(* arrival of a datagram and the call of Stop are up to the environment.   *)
(***************************************************************************)
\* ReadFromUDP returning with a datagram or an I/O error of the open socket
Arrival ==
    \E d \in {FrameWarn, FrameDamaged}, e \in BOOLEAN :
       /\ engine.conn = "open"
       /\ netlog.reads < MaxDatagrams
       /\ Receive(d, UDPAddr(1, 2), e)

\* ReadFromUDP returning because the socket is closed
ReadClosed ==
    /\ engine.conn = "closed"
    /\ Receive(<<>>, UDPAddr(0, 0), TRUE)

WorkerStep(w) ==
    WorkerTake(w) \/ WorkerAddPeer(w) \/ WorkerLock(w) \/ WorkerStore(w) \/ WorkerExit(w)

NextStop ==
    \/ Start
    \/ LoopSelect
    \/ Arrival
    \/ ReadClosed
    \/ LoopWait
    \/ Stop
    \/ \E w \in Workers : WorkerStep(w)

SpecStop ==
    /\ Init
    /\ [][NextStop]_vars
    /\ WF_vars(Start)
    /\ WF_vars(LoopSelect)
    /\ WF_vars(ReadClosed)
    /\ WF_vars(LoopWait)
    /\ \A w \in Workers : WF_vars(WorkerStep(w))

(***************************************************************************)
(* The process from the start of main's loop to its return on a signal,    *)
(* the engine receiving meanwhile.  Nothing runs once main has returned.   *)
(***************************************************************************)
\* What CollectMetrics returns when it succeeds: a sample below every
\* threshold, one at the CPU warning threshold, one above a critical one.
Samples ==
    {Metrics(F64(10), F64(20), F64(30)), Metrics(F64(70), F64(20), F64(30)),
     Metrics(F64(10), F64(97), F64(30))}

\* "no": an address without a port.
AddrBad == <<110, 111>>

NextShutdown ==
    \/ Alive /\ SeedBootstrap(ZeroMetrics, TRUE, TRUE)
    \/ Alive /\ Start
    \/ Alive /\ LoopSelect
    \/ Alive /\ Arrival
    \/ Alive /\ ReadClosed
    \/ Alive /\ LoopWait
    \/ Alive /\ Signal
    \/ Alive /\ MainReturn
    \/ \E w \in Workers : Alive /\ WorkerStep(w)

SpecShutdown == Init /\ [][NextShutdown]_vars

(***************************************************************************)
(* The orchestrator from the seed bootstrap on: the -seed-node flag is     *)
(* absent, an address, or a string that is no address; samples succeed or  *)
(* fail; peers are added by the seed bootstrap and by AddPeer.             *)
(***************************************************************************)
InitOrch ==
    /\ InitMonitor(Callers)
    /\ InitUDPNode
    /\ codec = <<>>
    /\ telemetry = <<>>
    /\ main \in {NewMain(seed) : seed \in {<<>>, Addr12, AddrBad}}
    /\ remote = RemoteRunning

NextOrch ==
    \/ \E m \in Samples, ok \in BOOLEAN, sendOk \in BOOLEAN : SeedBootstrap(m, ok, sendOk)
    \/ \E m \in Samples, ok \in BOOLEAN : HeartbeatTick(m, ok)
    \/ \E a \in {Addr17, AddrBad} : AddPeer(a)
    \/ \E a \in {ResolveUDPAddr(k) : k \in {Addr12, Addr17}}, ok \in BOOLEAN :
          BroadcastSend(a, ok)

SpecOrch == InitOrch /\ [][NextOrch]_vars

(***************************************************************************)
(* One peer written by two goroutines with all three writers while the     *)
(* reaper makes one pass and GetNodeCount is called once.                  *)
(***************************************************************************)
LinOps ==
    {OpUpdate(a) : a \in SkewAddrs}
    \cup {OpStatus(a, 1, 99) : a \in SkewAddrs}
    \cup {OpTelemetry(a, 75, 85, 90, 2) : a \in SkewAddrs}

NextLin ==
    \/ Tick
    \/ \E p \in Callers, a \in SkewAddrs : clock <= 1 /\ UpdateLock(p, a)
    \/ \E p \in Callers, op \in LinOps : UpdateStore(p, op)
    \/ reaper.passStart < 0 /\ ReaperTick
    \/ ReaperLock
    \/ \E a \in SkewAddrs : ReaperExamine(a)
    \/ ReaperUnlock
    \/ counter.pc = "idle" /\ CountStart
    \/ CountRLock
    \/ CountShard

SpecLin == Init /\ [][NextLin]_vars

\* The goroutines inside the critical section of shard i: as writers, as
\* readers.
WritersIn(i) ==
    {CallerId(p) : p \in {q \in DOMAIN callers :
                             callers[q].pc = "locked" /\ callers[q].shard = i}}
    \cup {ReaperId : x \in {y \in {1} : reaper.pc = "range" /\ reaper.i = i}}

ReadersIn(i) ==
    {CounterId : x \in {y \in {1} : counter.pc = "locked" /\ counter.i = i}}

(***************************************************************************)
(* Two instances, each with the other as seed.  Instance 1 is the process  *)
(* modelled: its engine, workers, reaper and heartbeat loop.  Instance 2   *)
(* is met through the frames that arrive from its address until it is      *)
(* stopped.  Both instances come up and exchange heartbeats within the     *)
(* first unit of the clock; time passes and the reaper makes its pass      *)
(* after instance 2 has been stopped, while the workers and the heartbeat  *)
(* loop of instance 1 go on.                                               *)
(***************************************************************************)
PairAddrs == {AddrString(RemoteAddr), LocalAddr}

PairSample == Metrics(F64(10), F64(20), F64(30))

\* One heartbeat of instance 2 arrives at the socket of instance 1.
RemoteHeartbeat ==
    /\ remote.running
    /\ netlog.reads < MaxPairFrames
    /\ Receive(FrameWarn, RemoteAddr, FALSE)

\* Instance 2 receives its signal and returns from main: it sends no more.
RemoteStop ==
    /\ remote.running
    /\ remote' = [running |-> FALSE, stoppedAt |-> clock]
    /\ UNCHANGED <<clock, tickerC, shards, callers, reaper, counter, timedOutLog,
                   created, lastUpdateAt, codec, telemetry, netVars, engine, main,
                   lister>>

InitPair ==
    /\ InitMonitor(Callers)
    /\ InitUDPNode
    /\ codec = <<>>
    /\ telemetry = <<>>
    /\ main = NewMain(AddrString(RemoteAddr))
    /\ remote = RemoteRunning

NextPair ==
    \/ Start
    \/ LoopSelect
    \/ engine.loop = "read" /\ SeedBootstrap(PairSample, TRUE, TRUE)
    \/ main.pc = "loop" /\ RemoteHeartbeat
    \/ main.pc = "loop" /\ RemoteStop
    \/ NextWorkers
    \/ HeartbeatTick(PairSample, TRUE)
    \/ BroadcastSend(RemoteAddr, TRUE)
    \/ ~remote.running /\ Tick
    \/ ~remote.running /\ reaper.passStart < 0 /\ ReaperTick
    \/ ReaperLock
    \/ \E a \in PairAddrs : ReaperExamine(a)
    \/ ReaperUnlock

\* The same run with no seed given to instance 1: it learns of instance 2
\* from the frames it receives.
InitBook ==
    /\ InitMonitor(Callers)
    /\ InitUDPNode
    /\ codec = <<>>
    /\ telemetry = <<>>
    /\ main = NewMain(<<>>)
    /\ remote = RemoteRunning

SpecBook == InitBook /\ [][NextPair]_vars

SpecPair == InitPair /\ [][NextPair]_vars

(***************************************************************************)
(* The long-lived tasks of one process around its shutdown: the receive    *)
(* loop and the workers, the reaper started by go monitor.StartReaper, and *)
(* main's loop up to its return.  One frame arrives and the reaper makes   *)
(* one pass.                                                               *)
(***************************************************************************)
NextTasks ==
    \/ Alive /\ Tick
    \/ Alive /\ SeedBootstrap(ZeroMetrics, TRUE, TRUE)
    \/ Alive /\ Start
    \/ Alive /\ LoopSelect
    \/ Alive /\ netlog.reads < MaxPairFrames /\ engine.conn = "open"
             /\ Receive(FrameWarn, RemoteAddr, FALSE)
    \/ Alive /\ ReadClosed
    \/ Alive /\ LoopWait
    \/ Alive /\ Signal
    \/ Alive /\ MainReturn
    \/ \E w \in Workers : Alive /\ WorkerStep(w)
    \/ Alive /\ reaper.passStart < 0 /\ ReaperTick
    \/ Alive /\ ReaperLock
    \/ \E a \in PairAddrs : Alive /\ ReaperExamine(a)
    \/ Alive /\ ReaperUnlock

SpecTasks == Init /\ [][NextTasks]_vars

(***************************************************************************)
(* Every user of the shard locks at once: two goroutines writing two peers *)
(* of different shards, the reaper on one pass, GetNodeCount and then      *)
(* GetNodes walking the shards.                                            *)
(***************************************************************************)
NextLocks ==
    \/ clock < 1 /\ Tick
    \/ \E p \in Callers, a \in RegAddrs : created[a] = 0 /\ UpdateLock(p, a)
    \/ \E p \in Callers, op \in RegOps : UpdateStore(p, op)
    \/ reaper.passStart < 0 /\ ReaperTick
    \/ ReaperLock
    \/ \E a \in RegAddrs : ReaperExamine(a)
    \/ ReaperUnlock
    \/ counter.pc = "idle" /\ CountStart
    \/ CountRLock
    \/ CountShard
    \/ counter.pc = "done" /\ lister.pc = "idle" /\ GetNodesStart
    \/ GetNodesRLock
    \/ GetNodesCopy

SpecLocks == Init /\ [][NextLocks]_vars

\* The goroutines that use the shard locks, and the shards whose lock a
\* goroutine holds, for writing or for reading.
LockUsers == {CallerId(p) : p \in Callers} \cup {ReaperId, CounterId, ListerId}

Held(g) == {i \in ShardIds : shards[i].mu.writer = g \/ g \in shards[i].mu.readers}

\* The one shard whose lock the goroutine is to hold at its place in the code.
HeldByPlace(g) ==
    IF g = ReaperId THEN {i \in {reaper.i} : reaper.pc = "range"}
    ELSE IF g = CounterId THEN {i \in {counter.i} : counter.pc = "locked"}
    ELSE IF g = ListerId THEN {i \in {lister.i} : lister.pc = "locked"}
    ELSE {i \in {getShard(callers[g.id].addr)} : callers[g.id].pc = "locked"}

(***************************************************************************)
(* The reporter making one report while one goroutine writes two peers:    *)
(* nodes := r.monitor.GetNodes(), then count := r.monitor.GetNodeCount().  *)
(***************************************************************************)
\* statusCodeToString
statusCodeToString(code) ==
    IF code = 0 THEN "OK"
    ELSE IF code = 1 THEN "WARN"
    ELSE IF code = 2 THEN "CRITICAL"
    ELSE "UNKNOWN"

\* The StatusReport that reportJSON encodes, from the map and the count the
\* two calls returned.
reportJSON(nodes, count) ==
    [NodeCount |-> count,
     Nodes |-> [a \in DOMAIN nodes |->
                  [Address |-> a,
                   Status |-> statusCodeToString(nodes[a].StatusCode),
                   StatusCode |-> nodes[a].StatusCode,
                   LastSeen |-> nodes[a].LastSeen]]]

\* What reportHuman prints after its header: "No active nodes" when the
\* count is 0, else one line for each entry of the map.
reportHuman(nodes, count) ==
    [NodeCount |-> count,
     NoActiveNodes |-> count = 0,
     Lines |-> IF count = 0 THEN {} ELSE DOMAIN nodes]

\* Both calls of the reporter have returned.
Reported == lister.pc = "done" /\ counter.pc = "done"

NextReport ==
    \/ \E a \in RegAddrs : created[a] = 0 /\ UpdateLock(1, a)
    \/ \E op \in RegOps : UpdateStore(1, op)
    \/ lister.pc = "idle" /\ GetNodesStart
    \/ GetNodesShard
    \/ lister.pc = "done" /\ counter.pc = "idle" /\ CountStart
    \/ CountRLock
    \/ CountShard

SpecReport == Init /\ [][NextReport]_vars

(***************************************************************************)
(* GetNodes called once while one goroutine writes two peers, in the first *)
(* and in the last shard, each once, and the reaper makes one pass.        *)
(***************************************************************************)
NextSnapshot ==
    \/ Tick
    \/ \E a \in RegAddrs : created[a] = 0 /\ UpdateLock(1, a)
    \/ \E op \in RegOps : UpdateStore(1, op)
    \/ reaper.passStart < 0 /\ ReaperTick
    \/ ReaperLock
    \/ \E a \in RegAddrs : ReaperExamine(a)
    \/ ReaperUnlock
    \/ lister.pc = "idle" /\ GetNodesStart
    \/ GetNodesShard

SpecSnapshot == Init /\ [][NextSnapshot]_vars

(***************************************************************************)
(* The identity alone: -node-id flags of 0, 1, 6, 15, 16 and 17 octets,    *)
(* hostnames of 2 and 18 octets, and three outputs of the random           *)
(* generator.                                                              *)
(***************************************************************************)
\* The first n octets of "pulsecheck-node-01"
NodeName(n) == SubSeq(<<112, 117, 108, 115, 101, 99, 104, 101, 99, 107, 45, 110, 111,
                        100, 101, 45, 48, 49>>, 1, n)

NodeIDs == {NodeName(n) : n \in {0, 1, 6, 15, 16, 17}}

Hostnames == {<<104, 49>>, NodeName(18)}

Randoms == {[i \in 1 .. 16 |-> 0], [i \in 1 .. 16 |-> 255], [i \in 1 .. 16 |-> 16 * i + 1]}

InitNodeID ==
    /\ InitMonitor(Callers)
    /\ InitUDPNode
    /\ codec = <<>>
    /\ telemetry = <<>>
    /\ main \in {FlagsParsed(id, h, e) : id \in NodeIDs, h \in Hostnames, e \in BOOLEAN}
    /\ remote = RemoteRunning

NextNodeID == \E random \in Randoms : GenerateNodeUUID(random)

SpecNodeID == InitNodeID /\ [][NextNodeID]_vars

\* The states of the engine: New until Start runs, Running while the
\* receive loop turns, Draining from the close of the packet channel until
\* Start returns, Stopped after.
StateAt(loop) ==
    CASE loop = "new" -> "New"
      [] loop \in {"select", "read"} -> "Running"
      [] loop = "wait" -> "Draining"
      [] loop = "returned" -> "Stopped"

EngineState == StateAt(engine.loop)


(***************************************************************************)
(* C1 as stated: at the step that completes a reaper pass (the unlock of   *)
(* the last shard), no record is older than Timeout on the clock of that   *)
(* moment.                                                                 *)
(***************************************************************************)
ReaperCompletenessAtEnd ==
    [][(reaper.pc = "range" /\ reaper'.pc = "wait")
        => \A a \in Present' : ~(clock' - LastSeenOf(a)' > Timeout)]_vars

(***************************************************************************)
(* C1, amended: once a reaper pass has completed, no record is older than  *)
(* Timeout on the clock of the moment that pass began; the age at the end  *)
(* of the pass is at most Timeout plus the time the pass took.             *)
(***************************************************************************)
ReaperCompletenessFromStart ==
    PassCompleted => \A a \in Present : reaper.passStart - LastSeenOf(a) <= Timeout

\* A pass has completed, it examined a record and kept it, and the record
\* is older than Timeout now.
ReaperKeptRecordNowStale ==
    /\ PassCompleted
    /\ \E a \in Present :
          /\ LastSeenOf(a) < reaper.passStart
          /\ clock - LastSeenOf(a) > Timeout


(***************************************************************************)
(* C2: the step in which UpdateWithStatus writes stores the local clock of *)
(* that moment as LastSeen (and the sender's timestamp as PacketTime only),*)
(* whatever the sender's timestamp is; and each decision of the reaper     *)
(* about a record is the one the local time of the record's latest update  *)
(* gives: it deletes exactly when that update is more than Timeout ago.    *)
(***************************************************************************)
LastSeenIsLocalClock ==
    [][/\ \A p \in Callers, op \in SkewOps :
            (op.kind = "UpdateWithStatus" /\ UpdateStore(p, op))
            => /\ shards'[getShard(op.addr)].nodes[op.addr].LastSeen = clock
               /\ shards'[getShard(op.addr)].nodes[op.addr].PacketTime
                     = op.packetTimestamp
       /\ \A a \in SkewAddrs :
            ReaperExamine(a)
            => ((a \notin Present') <=> (clock - lastUpdateAt[a] > Timeout))]_vars

\* A record whose sender timestamp is far in the past on the local clock
\* was examined by a completed reaper pass and kept.
SkewedRecordSurvivedPass ==
    /\ PassCompleted
    /\ \E a \in Present :
          /\ GetNodeInfo(a).info.PacketTime = -7
          /\ LastSeenOf(a) < reaper.passStart

\* GetNodeInfo(a) before a step and right after it: the record, the zero
\* NodeInfo when there is none, and whether there is one.
Before(a) == Lookup(shards[getShard(a)].nodes, a)
After(a) == Lookup(shards'[getShard(a)].nodes, a)
OkAfter(a) == a \in DOMAIN shards'[getShard(a)].nodes

(***************************************************************************)
(* C3: in every step that leaves an address with a record, the LastSeen    *)
(* stored for the address does not decrease.                               *)
(***************************************************************************)
LastSeenMonotone ==
    [][\A a \in SkewAddrs :
          (a \in Present /\ OkAfter(a)) => After(a).LastSeen >= LastSeenOf(a)]_vars

\* A record written by UpdateWithTelemetry and then, at a later time and
\* with a sender timestamp far in the past, by UpdateWithStatus.
TelemetryThenSkewedStatus ==
    \E a \in Present :
        /\ created[a] = 1
        /\ GetNodeInfo(a).info.CPUPercent = 75
        /\ GetNodeInfo(a).info.PacketTime = -7
        /\ LastSeenOf(a) = MaxClock


(***************************************************************************)
(* C4 as stated: a record is gone (no GetNodeInfo, not counted, one        *)
(* "timed out" line per removal) and no record is still present more than  *)
(* Timeout + Interval after its latest update.                             *)
(***************************************************************************)
EvictionAccounting(a) ==
    /\ timedOutLog[a] = created[a] - (IF a \in Present THEN 1 ELSE 0)
    /\ GetNodeInfo(a).ok <=> a \in Present
    /\ SumLen(numShards) = Cardinality(Present)

SilentPeerEvictedWithinBound ==
    \A a \in RegAddrs :
        /\ EvictionAccounting(a)
        /\ a \in Present => clock - lastUpdateAt[a] <= Timeout + Interval

(***************************************************************************)
(* C4, amended: a record whose latest update was more than Timeout ago     *)
(* when a reaper pass began is gone when that pass has completed: then     *)
(* GetNodeInfo finds nothing, the count leaves it out, and exactly one     *)
(* "timed out" line was logged for each removal of a record.               *)
(***************************************************************************)
SilentPeerEvictedByNextPass ==
    \A a \in RegAddrs :
        /\ EvictionAccounting(a)
        /\ (PassCompleted /\ a \in Present)
              => reaper.passStart - lastUpdateAt[a] <= Timeout

\* A pass has completed and removed the one record ever created for a peer.
SilentPeerGone ==
    /\ PassCompleted
    /\ \E a \in RegAddrs :
          /\ created[a] = 1
          /\ timedOutLog[a] = 1
          /\ ~GetNodeInfo(a).ok
          /\ SumLen(numShards) < Cardinality(RegAddrs)

(***************************************************************************)
(* C5: a peer whose updates follow each other by less than Timeout has a   *)
(* record in every state after its first update; the count stays 1 and no  *)
(* "timed out" line is logged for it.                                      *)
(***************************************************************************)
LivePeerKept ==
    \A a \in LiveAddrs :
        created[a] >= 1
        => /\ GetNodeInfo(a).ok
           /\ SumLen(numShards) = 1
           /\ timedOutLog[a] = 0
           /\ created[a] = 1

\* At the end of the clock the peer, refreshed all along, is still there
\* after a reaper pass that began at that time.
LivePeerAfterLastPass ==
    /\ PassCompleted
    /\ reaper.passStart = MaxClock
    /\ \E a \in LiveAddrs :
          /\ GetNodeInfo(a).ok
          /\ LastSeenOf(a) = MaxClock
          /\ GetNodeInfo(a).info.PacketTime = -7


\* In how many shards the address has a record.
Copies(a) == Cardinality({i \in ShardIds : a \in DOMAIN shards[i].nodes})

(***************************************************************************)
(* C6: with no eviction, every address that was written, however often and *)
(* by whichever callers, has exactly one record, and a GetNodeCount that   *)
(* has returned counted each address once: its result lies between the     *)
(* number of distinct addresses written when it began and the number       *)
(* written by now, and is that number when the two are the same.           *)
(***************************************************************************)
OneRecordPerAddress ==
    /\ \A a \in CountAddrs : Copies(a) = (IF a \in Updated THEN 1 ELSE 0)
    /\ counter.pc = "done"
          => /\ counter.atStart <= counter.result
             /\ counter.result <= Cardinality(Updated)

\* All three addresses were written before a GetNodeCount began, one of
\* them by UpdateWithStatus, and the call has returned 3.
CountedThreeAddresses ==
    /\ counter.pc = "done"
    /\ counter.atStart = Cardinality(CountAddrs)
    /\ counter.result = Cardinality(CountAddrs)
    /\ GetNodeInfo(Addr38).info.PacketTime = 99

(***************************************************************************)
(* C7: once every emitter has written all its peers, every one of the      *)
(* NumEmitters * UpdatesPerEmitter addresses has a record, and a           *)
(* GetNodeCount that began after that returns exactly that number.         *)
(***************************************************************************)
ConcurrentUpdatesConverge ==
    EmittersDone
    => /\ \A a \in ConvAddrs : GetNodeInfo(a).ok
       /\ SumLen(numShards) = NumEmitters * UpdatesPerEmitter
       /\ (counter.pc = "done" /\ counter.atStart = NumEmitters * UpdatesPerEmitter)
             => counter.result = NumEmitters * UpdatesPerEmitter

\* The emitters are done and a GetNodeCount that began afterwards returned.
CountAfterEmitters ==
    /\ EmittersDone
    /\ counter.pc = "done"
    /\ counter.atStart = NumEmitters * UpdatesPerEmitter
    /\ counter.result = Cardinality(ConvAddrs)

(***************************************************************************)
(* C8: for every node id, every timestamp, negative ones included, and     *)
(* every severity 0, 1, 2 with version 1, Encode returns exactly 30 octets *)
(* and Decode of those octets succeeds with the same version, node id,     *)
(* timestamp and severity.                                                 *)
(***************************************************************************)
RoundTrip ==
    /\ (codec.pc # "new" /\ codec.how = {}) => Len(codec.buf) = 30
    /\ (codec.pc = "decoded" /\ codec.how = {})
          => /\ codec.res.err = "nil"
             /\ ~codec.res.isNil
             /\ codec.res.p.Version = codec.pkt.Version
             /\ codec.res.p.NodeUUID = codec.pkt.NodeUUID
             /\ codec.res.p.Timestamp = codec.pkt.Timestamp
             /\ codec.res.p.StatusCode = codec.pkt.StatusCode

\* The frame of a packet stamped -2^63 with severity 2 was decoded intact.
NegativeTimestampDecoded ==
    /\ codec.pc = "decoded"
    /\ codec.how = {}
    /\ codec.pkt.Timestamp = I64(-32768, 0, 0)
    /\ codec.pkt.StatusCode = 2
    /\ codec.res.p.Timestamp.hi < 0
    /\ codec.buf[18] = 128

(***************************************************************************)
(* C9: a buffer whose length is not 30, shorter or longer or empty, makes  *)
(* Decode fail with the size error and no packet, whatever its checksum    *)
(* octets are: also when octets 26..29 do not match the CRC of octets      *)
(* 0..25 the error is the size error.                                      *)
(***************************************************************************)
BadLengthFirst ==
    (codec.pc = "decoded" /\ Len(codec.buf) # 30)
       => /\ codec.res.err = ErrSize
          /\ codec.res.isNil

\* A frame with an inverted bit and one octet appended was refused for its
\* size; its octets 26..29 are not the CRC of its octets 0..25.
LongCorruptRefusedForSize ==
    /\ codec.pc = "decoded"
    /\ codec.how = {"flip", "pad"}
    /\ Len(codec.buf) = 31
    /\ Uint32(SubSeq(codec.buf, 27, 30)) # ChecksumIEEE(SubSeq(codec.buf, 1, 26))
    /\ codec.res.err = ErrSize

(***************************************************************************)
(* C10: a frame from Encode with any single bit of octets 0..29 inverted   *)
(* is refused by Decode, with the checksum error when it still has 30      *)
(* octets and the size error otherwise; and Decode succeeds only on 30     *)
(* octets whose last 4 are the big-endian CRC-32/IEEE of the first 26.     *)
(***************************************************************************)
BitFlipDetected ==
    codec.pc = "decoded"
    => /\ "flip" \in codec.how
          => /\ codec.res.isNil
             /\ codec.res.err = (IF Len(codec.buf) = 30 THEN ErrChecksum ELSE ErrSize)
       /\ codec.res.err = "nil"
          => /\ Len(codec.buf) = 30
             /\ SubSeq(codec.buf, 27, 30)
                   = PutUint32(ChecksumIEEE(SubSeq(codec.buf, 1, 26)))

\* A frame whose severity octet had its lowest bit inverted, turning
\* severity 0 into 1, was refused for its checksum.
SeverityFlipRefused ==
    /\ codec.pc = "decoded"
    /\ codec.how = {"flip"}
    /\ codec.pkt.StatusCode = 0
    /\ codec.buf[26] = 1
    /\ codec.res.err = ErrChecksum

ClassifierMonotone ==
    (telemetry.pc = "classified" /\ telemetry.before.any)
       => telemetry.status >= telemetry.before.status

\* With warn 90 above critical 70 for cpu: cpu went from 75, CRITICAL, up to
\* 95 and the status is still CRITICAL.
RaisedPastInvertedWarn ==
    /\ telemetry.pc = "classified"
    /\ telemetry.before.any
    /\ telemetry.thresholds.CPUWarn = F64(90)
    /\ telemetry.thresholds.CPUCritical = F64(70)
    /\ telemetry.before.metrics.CPUPercent = F64(75)
    /\ telemetry.metrics.CPUPercent = F64(95)
    /\ telemetry.before.status = 2
    /\ telemetry.status = 2


(***************************************************************************)
(* C13: Update creates the record when the address has none and otherwise  *)
(* sets LastSeen to now, and writes no severity or metrics: the            *)
(* StatusCode, PacketTime and CPU, RAM and disk percents of an existing    *)
(* record are after the call what they were before it.                     *)
(***************************************************************************)
UpdateKeepsStatusAndMetrics ==
    [][\A p \in Callers, op \in SkewOps :
          (op.kind = "Update" /\ UpdateStore(p, op))
          => /\ OkAfter(op.addr)
             /\ After(op.addr).LastSeen = clock
             /\ op.addr \in Present
                   => /\ After(op.addr).StatusCode = Before(op.addr).StatusCode
                      /\ After(op.addr).PacketTime = Before(op.addr).PacketTime
                      /\ After(op.addr).CPUPercent = Before(op.addr).CPUPercent
                      /\ After(op.addr).RAMPercent = Before(op.addr).RAMPercent
                      /\ After(op.addr).DiskPercent = Before(op.addr).DiskPercent]_vars

(***************************************************************************)
(* C14: UpdateWithStatus sets LastSeen to now and StatusCode and           *)
(* PacketTime to its arguments and leaves the CPU, RAM and disk percents   *)
(* of an existing record as they were; for an address without a record it  *)
(* creates one with zero percents.  GetNodeInfo right after the call       *)
(* returns that StatusCode and PacketTime.                                 *)
(***************************************************************************)
StatusUpdateKeepsMetrics ==
    [][\A p \in Callers, op \in SkewOps :
          (op.kind = "UpdateWithStatus" /\ UpdateStore(p, op))
          => /\ OkAfter(op.addr)
             /\ After(op.addr).Address = op.addr
             /\ After(op.addr).LastSeen = clock
             /\ After(op.addr).StatusCode = op.statusCode
             /\ After(op.addr).PacketTime = op.packetTimestamp
             /\ After(op.addr).CPUPercent
                   = (IF op.addr \in Present THEN Before(op.addr).CPUPercent ELSE 0)
             /\ After(op.addr).RAMPercent
                   = (IF op.addr \in Present THEN Before(op.addr).RAMPercent ELSE 0)
             /\ After(op.addr).DiskPercent
                   = (IF op.addr \in Present THEN Before(op.addr).DiskPercent ELSE 0)]_vars

\* A record holding the percents 10, 20, 30 of an UpdateWithTelemetry and
\* the status 1 and sender timestamp 99 of a later UpdateWithStatus.
StatusOverTelemetry ==
    /\ GetNodeInfo(Addr12).ok
    /\ GetNodeInfo(Addr12).info.CPUPercent = 10
    /\ GetNodeInfo(Addr12).info.RAMPercent = 20
    /\ GetNodeInfo(Addr12).info.DiskPercent = 30
    /\ GetNodeInfo(Addr12).info.StatusCode = 1
    /\ GetNodeInfo(Addr12).info.PacketTime = 99
    /\ created[Addr12] = 1

(***************************************************************************)
(* C15: UpdateWithTelemetry sets LastSeen to now and the three percents    *)
(* and the StatusCode to its arguments whatever the record held before;    *)
(* GetNodeInfo right after the call returns those four values under        *)
(* Address = addr.                                                         *)
(***************************************************************************)
TelemetryOverwrites ==
    [][\A p \in Callers, op \in SkewOps :
          (op.kind = "UpdateWithTelemetry" /\ UpdateStore(p, op))
          => /\ OkAfter(op.addr)
             /\ After(op.addr).Address = op.addr
             /\ After(op.addr).LastSeen = clock
             /\ After(op.addr).CPUPercent = op.cpu
             /\ After(op.addr).RAMPercent = op.ram
             /\ After(op.addr).DiskPercent = op.disk
             /\ After(op.addr).StatusCode = op.statusCode]_vars

\* A record never evicted holds what UpdateWithTelemetry(10, 20, 30, 0)
\* wrote at a time after 0: these percents and status, no sender timestamp.
TelemetryReplacedTelemetry ==
    /\ GetNodeInfo(Addr12).ok
    /\ GetNodeInfo(Addr12).info.CPUPercent = 10
    /\ GetNodeInfo(Addr12).info.DiskPercent = 30
    /\ GetNodeInfo(Addr12).info.StatusCode = 0
    /\ GetNodeInfo(Addr12).info.PacketTime = 0
    /\ GetNodeInfo(Addr12).info.LastSeen > 0
    /\ created[Addr12] = 1

(***************************************************************************)
(* C16: a worker that takes a packet which decodes holds its source and    *)
(* its fields; while it is in UpdateWithStatus the address book has the    *)
(* source; and in the step that ends its handling the address book has     *)
(* the source and the registry record under the source's "ip:port" holds   *)
(* the severity and the timestamp of that frame.                           *)
(***************************************************************************)
WorkerRecordsPeerAndStatus ==
    [][\A w \in Workers :
          /\ (WorkerTake(w) /\ Head(packetChan).data \in {FrameWarn, FrameCritical})
                => /\ workers'[w].addr = Head(packetChan).addr
                   /\ workers'[w].pkt.StatusCode = Head(packetChan).data[26]
                   /\ PutUint64(workers'[w].pkt.Timestamp)
                         = SubSeq(Head(packetChan).data, 18, 25)
          /\ workers'[w].pc \in {"update", "locked"}
                => AddrString(workers'[w].addr) \in DOMAIN peers'
          /\ WorkerStore(w)
                => /\ AddrString(workers[w].addr) \in DOMAIN peers'
                   /\ OkAfter(AddrString(workers[w].addr))
                   /\ After(AddrString(workers[w].addr)).StatusCode
                         = workers[w].pkt.StatusCode
                   /\ After(AddrString(workers[w].addr)).PacketTime
                         = workers[w].pkt.Timestamp]_vars

\* The two sound frames were handled to the end: "1:7" is in the address
\* book and its record holds severity 2 and the timestamp -1, and "1:2"
\* holds severity 1.
CriticalFrameRecorded ==
    /\ Addr17 \in DOMAIN peers
    /\ GetNodeInfo(Addr17).ok
    /\ GetNodeInfo(Addr17).info.StatusCode = 2
    /\ GetNodeInfo(Addr17).info.PacketTime = I64(-1, 16777215, 16777215)
    /\ GetNodeInfo(Addr12).ok
    /\ GetNodeInfo(Addr12).info.StatusCode = 1
    /\ \A w \in Workers : workers[w].pc = "idle"

(***************************************************************************)
(* C17: a worker that takes a packet which does not decode logs the        *)
(* failure once and drops the packet: the address book, the registry and   *)
(* everything else but the channel and the log stay as they are, and the   *)
(* worker is ready for the next packet.                                    *)
(***************************************************************************)
DecodeFailureDiscards ==
    [][\A w \in Workers :
          (WorkerTake(w) /\ Head(packetChan).data \notin {FrameWarn, FrameCritical})
          => /\ netlog'.decodeFailed = netlog.decodeFailed + 1
             /\ packetChan' = Tail(packetChan)
             /\ workers'[w].pc = "idle"
             /\ UNCHANGED <<peers, shards, workers, bcast, created, lastUpdateAt, engine, main,
                   lister, remote>>]_vars

\* After a decode failure was logged, a worker took the next packet, a
\* sound one, and recorded it; nothing else was recorded.
HandledAfterDecodeFailure ==
    /\ netlog.decodeFailed = 1
    /\ netlog.queued = 2
    /\ packetChan = <<>>
    /\ DOMAIN peers = {Addr12}
    /\ Present = {Addr12}
    /\ \A w \in Workers : workers[w].pc = "idle"

(***************************************************************************)
(* C18: a datagram whose length is not 30 octets, shorter or longer, and   *)
(* a read that fails, put nothing on the packet channel and change neither *)
(* the registry nor the address book; the loop goes on.                    *)
(***************************************************************************)
WrongSizeNeverQueued ==
    [][\A d \in NetDatagrams, a \in Sources, e \in BOOLEAN :
          ((Len(d) # 30 \/ e) /\ Receive(d, a, e))
          => /\ UNCHANGED <<packetChan, peers, shards, engine, main, lister, remote>>
             /\ netlog'.queued = netlog.queued]_vars

(***************************************************************************)
(* C19: the packet channel never holds more than 2 x workerCount jobs,     *)
(* workerCount the larger of NumCPU and 2.  Each read of a 30-octet        *)
(* datagram either appends one job or, only when the channel holds that    *)
(* many, counts one drop and leaves the channel alone; the reads are the   *)
(* jobs queued plus the drops.                                             *)
(***************************************************************************)
EnqueueNeverBlocks ==
    [][LET cap == 2 * (IF NumCPU > 2 THEN NumCPU ELSE 2) IN
       /\ Len(packetChan') <= cap
       /\ netlog'.reads = netlog'.queued + netlog'.dropped
       /\ netlog'.reads # netlog.reads
             => /\ netlog'.reads = netlog.reads + 1
                /\ \/ /\ Len(packetChan) < cap
                      /\ Len(packetChan') = Len(packetChan) + 1
                      /\ SubSeq(packetChan', 1, Len(packetChan)) = packetChan
                      /\ netlog'.queued = netlog.queued + 1
                      /\ netlog'.dropped = netlog.dropped
                   \/ /\ Len(packetChan) = cap
                      /\ packetChan' = packetChan
                      /\ netlog'.queued = netlog.queued
                      /\ netlog'.dropped = netlog.dropped + 1]_vars

\* No worker ever took a job: the channel is full of the first jobs and the
\* loop has read on and dropped the rest.
FloodDroppedWithIdleWorkers ==
    /\ netlog.reads = FloodDatagrams
    /\ Len(packetChan) = netlog.queued
    /\ netlog.dropped = FloodDatagrams - Len(packetChan)
    /\ netlog.dropped >= 2
    /\ netlog.decodeFailed = 0
    /\ Present = {}

StopReachesStopped ==
    /\ (EngineState = "Running" /\ engine.stopChan = "closed") ~> (EngineState = "Stopped")
    /\ [](EngineState = "Stopped" =>
             /\ engine.packetChanClosed
             /\ \A w \in Workers : workers[w].pc = "exited")
    /\ [][\/ StateAt(engine'.loop) = EngineState
          \/ EngineState = "New" /\ StateAt(engine'.loop) = "Running"
          \/ EngineState = "Running" /\ StateAt(engine'.loop) = "Draining"
          \/ EngineState = "Draining" /\ StateAt(engine'.loop) = "Stopped"]_vars

\* Stopped was reached after packets had been queued, and the close of the
\* socket had ended a read.
StoppedAfterBlockedRead ==
    /\ EngineState = "Stopped"
    /\ engine.unblocked
    /\ netlog.queued > 0


(***************************************************************************)
(* C22 as stated: when the shutdown is over (Start has returned, or the    *)
(* process has ended), every packet that was queued has been handled, and  *)
(* at no moment have more packets been handled than were queued.           *)
(***************************************************************************)
ShutdownLosesNoPacket ==
    /\ netlog.handled <= netlog.queued
    /\ (EngineState = "Stopped" \/ ~Alive) => netlog.handled = netlog.queued


HeartbeatOnlyFromSample ==
    /\ [][main'.skipped # main.skipped
             => /\ shards' = shards
                /\ bcast' = bcast
                /\ main'.pc = "loop"]_vars
    /\ [](/\ bcast.calls = main.ticks - main.skipped
          /\ bcast.calls > 0 => Decode(bcast.data).p.StatusCode = main.statusCode
          /\ \A i \in 1 .. Len(bcast.sends) : bcast.sends[i].data = bcast.data)
    /\ [](main.seed.sends # <<>> => main.seed.sampled)


(***************************************************************************)
(* C30: a call of AddPeer with a string that does not resolve returns an   *)
(* error and leaves peers as it was, and a call with an address adds that  *)
(* address; the seed bootstrap leaves peers as it was unless               *)
(* SendToSeedNode returned nil, and then it has added the seed; the book   *)
(* only ever holds resolved addresses; and whatever SendToSeedNode         *)
(* returned, main goes on to its heartbeat loop.                           *)
(***************************************************************************)
AddPeerOnlyOnSuccess ==
    /\ [][netlog'.addPeer # netlog.addPeer
             => IF ResolveError(netlog'.addPeer.addrStr)
                THEN /\ netlog'.addPeer.err = "err"
                     /\ peers' = peers
                ELSE /\ netlog'.addPeer.err = "nil"
                     /\ peers' = Put(peers, netlog'.addPeer.addrStr,
                                     ResolveUDPAddr(netlog'.addPeer.addrStr))]_vars
    /\ [][main.pc = "seed" /\ main'.pc # "seed"
             => /\ main'.pc = "loop"
                /\ ResolveError(main.seedNode) /\ main.seedNode # <<>>
                      => main'.seed.err = "resolve"
                /\ IF main'.seed.err = "nil"
                   THEN peers' = Put(peers, main.seedNode, ResolveUDPAddr(main.seedNode))
                   ELSE peers' = peers]_vars
    /\ [](\A k \in DOMAIN peers : ~ResolveError(k) /\ peers[k] = ResolveUDPAddr(k))

\* The seed did not resolve and the book stayed empty; an address was added
\* by AddPeer; a later AddPeer of a string that does not resolve returned an
\* error and the book still holds that one address; and a heartbeat tick
\* has broadcast to it.
SeedFailedLoopRuns ==
    /\ main.seed.called
    /\ main.seed.err = "resolve"
    /\ netlog.addPeer = [addrStr |-> AddrBad, err |-> "err"]
    /\ DOMAIN peers = {Addr17}
    /\ bcast.calls > 0
    /\ bcast.pc = "done"
    /\ Len(bcast.sends) = 1


(***************************************************************************)
(* C29: with s the -node-id flag, or the hostname ("unknown" without one)  *)
(* when the flag is empty, every id derived has 16 octets, the first       *)
(* min(len(s), 16) of them the first octets of s; when len(s) < 16 the     *)
(* octets after these are the ones the random generator gave that process; *)
(* when len(s) >= 16 the id is the first 16 octets of s, the same in every *)
(* process.                                                                *)
(***************************************************************************)
NodeIDFromInput ==
    main.pc = "flags" =>
        LET s == NodeIDOrHostname(main.nodeID, main.hostname, main.hostErr)
            n == IF Len(s) < 16 THEN Len(s) ELSE 16
        IN  \A k \in 1 .. Len(main.uuids) :
               /\ Len(main.uuids[k]) = 16
               /\ \A i \in 1 .. n : main.uuids[k][i] = s[i]
               /\ \A i \in n + 1 .. 16 : main.uuids[k][i] = main.randoms[k][i]
               /\ Len(s) >= 16 =>
                     /\ main.uuids[k] = SubSeq(s, 1, 16)
                     /\ \A j \in 1 .. Len(main.uuids) : main.uuids[j] = main.uuids[k]

\* Two processes given the same flag of six octets have derived ids that
\* agree in the first six octets and differ after them.
SameShortInputDiffers ==
    /\ main.pc = "flags"
    /\ main.nodeID = NodeName(6)
    /\ Len(main.uuids) = 2
    /\ SubSeq(main.uuids[1], 1, 6) = SubSeq(main.uuids[2], 1, 6)
    /\ main.uuids[1] # main.uuids[2]


(***************************************************************************)
(* C27: while GetNodes runs and after it has returned, for each address    *)
(* whose shard the call has read: an entry of the result is a record that  *)
(* GetNodeInfo would have returned for the address at some instant of the  *)
(* call; if the address had one record, or none, during all of the call,   *)
(* the result holds exactly that; in particular a call during which        *)
(* nothing changed returns the registry as it is at the return.  The       *)
(* result is a copy: once returned it is not changed by what happens to    *)
(* the registry.                                                           *)
(***************************************************************************)
SnapshotWeaklyConsistent ==
    /\ [](lister.pc \in {"lock", "done"} =>
            \A a \in DOMAIN created :
               LET read == lister.pc = "done" \/ getShard(a) < lister.i IN
               /\ a \in DOMAIN lister.result =>
                     /\ read
                     /\ [info |-> lister.result[a], ok |-> TRUE] \in lister.hist[a]
               /\ \A h \in lister.hist[a] :
                     read /\ lister.hist[a] = {h} =>
                        IF h.ok
                        THEN a \in DOMAIN lister.result /\ lister.result[a] = h.info
                        ELSE a \notin DOMAIN lister.result)
    /\ [][/\ lister.pc = "lock"
          /\ lister'.pc = "done"
          /\ \A a \in DOMAIN created : Cardinality(lister.hist[a]) = 1
          => /\ DOMAIN lister'.result = Present
             /\ \A a \in Present : lister'.result[a] = GetNodeInfo(a).info]_vars
    /\ [][lister.pc = "done" /\ lister'.pc = "done" => lister'.result = lister.result]_vars

\* GetNodes has returned the record of 1:7 and none of 1:2, although 1:2 was
\* written before 1:7 and has not been removed: the registry held 1:2 at
\* every instant at which it held 1:7.
SnapshotOfNoInstant ==
    /\ lister.pc = "done"
    /\ DOMAIN lister.result = {Addr17}
    /\ Present = {Addr12, Addr17}
    /\ timedOutLog[Addr12] = 0
    /\ lastUpdateAt[Addr12] >= 0
    /\ lastUpdateAt[Addr12] < lastUpdateAt[Addr17]


(***************************************************************************)
(* C26: in every shard at most one goroutine is inside a writer's critical *)
(* section, it is the holder of the mutex, and no reader is inside with    *)
(* it; and every change of a shard's map is one whole step of the holder   *)
(* on the map as it is at that moment: one of the three updates applied to *)
(* the stored record, or the reaper's delete of one key.  The stored       *)
(* records are therefore those of the updates and deletions applied one    *)
(* after another in the order of these steps.                              *)
(***************************************************************************)
UpdatesLinearizable ==
    /\ [](\A i \in ShardIds :
            /\ Cardinality(WritersIn(i)) <= 1
            /\ WritersIn(i) # {} => ReadersIn(i) = {}
            /\ WritersIn(i) = {w \in {shards[i].mu.writer} : w # NoHolder}
            /\ ReadersIn(i) = shards[i].mu.readers)
    /\ [][\A i \in ShardIds :
            shards'[i].nodes # shards[i].nodes =>
               \/ \E p \in Callers, op \in LinOps :
                     /\ WritersIn(i) = {CallerId(p)}
                     /\ op.addr = callers[p].addr
                     /\ shards'[i].nodes = Apply(shards[i].nodes, op, clock)
               \/ \E a \in DOMAIN shards[i].nodes :
                     /\ WritersIn(i) = {ReaperId}
                     /\ shards'[i].nodes = Delete(shards[i].nodes, a)]_vars

\* One goroutine is inside UpdateWithStatus on 1:2 while the other waits for
\* the lock after an UpdateWithTelemetry and a reaper pass have gone before.
SecondWriterWaits ==
    /\ callers[1].pc = "locked"
    /\ callers[2].pc = "idle"
    /\ GetNodeInfo(Addr12).info.CPUPercent = 75
    /\ PassCompleted
    /\ counter.pc = "done"


RemoteRecordsCarryNoMetrics ==
    /\ \A a \in Present \ {LocalAddr} :
          /\ GetNodeInfo(a).info.CPUPercent = 0
          /\ GetNodeInfo(a).info.RAMPercent = 0
          /\ GetNodeInfo(a).info.DiskPercent = 0
    /\ \A w \in Workers :
          workers[w].pc # "idle" => AddrString(workers[w].addr) # LocalAddr

\* The self-entry carries the sample beside the record of instance 2, which
\* a worker stored after it.
SelfEntryBesidePeerRecord ==
    /\ Present = PairAddrs
    /\ GetNodeInfo(LocalAddr).info.CPUPercent = 10
    /\ GetNodeInfo(LocalAddr).info.DiskPercent = 30
    /\ GetNodeInfo(AddrString(RemoteAddr)).info.StatusCode = 1
    /\ GetNodeInfo(AddrString(RemoteAddr)).info.CPUPercent = 0
    /\ netlog.handled = 1

(***************************************************************************)
(* C31 as stated, its part on what follows the stop signal: once stopChan  *)
(* is closed no reaper pass begins, no broadcast is made and no shard of   *)
(* the registry changes.                                                   *)
(***************************************************************************)
NoTaskRunsAfterStop ==
    [][engine.stopChan = "closed" =>
          /\ reaper'.passStart = reaper.passStart
          /\ bcast'.calls = bcast.calls
          /\ \A i \in ShardIds : shards'[i].nodes = shards[i].nodes]_vars

(***************************************************************************)
(* C32: no goroutine holds the locks of two shards at once: what each      *)
(* holds is the lock of the one shard it is working on (for a writer the   *)
(* shard of its address), and it holds it only at a place from which it    *)
(* goes on to release it without taking another lock.  A writer finding    *)
(* the lock of its own shard free can take it whatever is held on other    *)
(* shards.                                                                 *)
(***************************************************************************)
OneShardLockAtATime ==
    /\ \A g \in LockUsers :
          /\ Cardinality(Held(g)) <= 1
          /\ Held(g) = HeldByPlace(g)
    /\ \A p \in Callers : callers[p].pc = "locked" =>
          ENABLED UpdateStore(p, OpUpdate(callers[p].addr))
    /\ reaper.pc = "range" => reaper.todo \subseteq DOMAIN shards[reaper.i].nodes
    /\ counter.pc = "locked" => ENABLED CountShard
    /\ lister.pc = "locked" => ENABLED GetNodesCopy
    /\ \A p \in Callers, a \in RegAddrs :
          (callers[p].pc = "idle" /\ shards[getShard(a)].mu = FreeMu)
             => ENABLED UpdateLock(p, a)

\* A writer, the reaper and GetNodes each hold the lock of a different
\* shard, and the second writer takes a fourth.
ThreeShardsLockedApart ==
    /\ reaper.pc = "range"
    /\ lister.pc = "locked"
    /\ callers[1].pc = "locked"
    /\ callers[2].pc = "locked"
    /\ Cardinality({reaper.i, lister.i, callers[1].shard, callers[2].shard}) = 4

(***************************************************************************)
(* C33: a record leaves the registry only in a step of the reaper that     *)
(* holds the write lock of its shard and finds now - LastSeen greater than *)
(* timeout at that moment; a record the reaper examines at an age of       *)
(* timeout or less, among them one refreshed before the reaper took the    *)
(* lock, is left as it is.                                                 *)
(***************************************************************************)
ReaperDeletesOnlyExpired ==
    [][\A a \in RegAddrs :
          LET s == getShard(a)
              nodes == shards[s].nodes
          IN  /\ (a \in DOMAIN nodes /\ a \notin DOMAIN shards'[s].nodes) =>
                    /\ reaper.pc = "range"
                    /\ reaper.i = s
                    /\ shards[s].mu.writer = ReaperId
                    /\ a \in reaper.todo
                    /\ clock - nodes[a].LastSeen > Timeout
              /\ (/\ reaper.pc = "range"
                  /\ a \in reaper.todo
                  /\ a \notin reaper'.todo
                  /\ clock - nodes[a].LastSeen <= Timeout) =>
                    /\ a \in DOMAIN shards'[s].nodes
                    /\ shards'[s].nodes[a] = nodes[a]]_vars

\* The reaper has examined 1:2 at the age of exactly timeout and kept it,
\* in a pass that began when the record was younger.
KeptAtExactTimeout ==
    /\ reaper.pc = "range"
    /\ reaper.i = getShard(Addr12)
    /\ Addr12 \notin reaper.todo
    /\ GetNodeInfo(Addr12).ok
    /\ clock - GetNodeInfo(Addr12).info.LastSeen = Timeout
    /\ reaper.passStart < clock

(***************************************************************************)
(* C34: packetChan is closed by the receive loop alone, in the step of its *)
(* select that finds stopChan closed, and the loop never comes back to the *)
(* select or to a read after it, so the channel is closed once and nothing *)
(* is queued on it closed; no packet is queued and no worker has anything  *)
(* to do before Start has started the workers.                             *)
(***************************************************************************)
ChannelClosedOnceByLoop ==
    /\ [](/\ engine.packetChanClosed =>
                (engine.stopChan = "closed" /\ engine.loop \in {"wait", "returned"})
          /\ engine.loop = "new" =>
                (/\ packetChan = <<>>
                 /\ netlog.queued = 0
                 /\ \A w \in Workers : workers[w].pc = "idle"))
    /\ [][/\ (engine'.packetChanClosed # engine.packetChanClosed) =>
                (/\ engine.loop = "select"
                 /\ engine.stopChan = "closed"
                 /\ engine'.packetChanClosed)
          /\ engine.packetChanClosed =>
                (/\ netlog'.queued = netlog.queued
                 /\ Len(packetChan') <= Len(packetChan))]_vars

\* The channel is closed with a packet still in it, left to the workers.
ClosedWithPacketQueued ==
    /\ engine.packetChanClosed
    /\ packetChan # <<>>
    /\ netlog.handled < netlog.queued

(***************************************************************************)
(* C35: every packet in the queue shows the octets that were read for it,  *)
(* whatever the receive buffer has been refilled with since, and a worker  *)
(* decodes those octets; the loop holds no buffer of the pool between two  *)
(* reads, whichever path the read took.                                    *)
(***************************************************************************)
WorkerDecodesOwnedCopy ==
    /\ [](/\ \A k \in 1 .. Len(packetChan) :
                /\ JobData(packetChan[k]) = packetChan[k].rcvd
                /\ Len(packetChan[k].data) = PacketSize
          /\ engine.borrowed = 0)
    /\ [][\A w \in Workers :
             (workers[w].pc = "idle" /\ workers'[w].pc = "peer") =>
                workers'[w].pkt = Decode(Head(packetChan).rcvd).p]_vars

\* A queued packet differs from what the receive buffer holds now: the
\* buffer was refilled by a later read, once by a datagram of a wrong size.
BufferRefilledBehindPacket ==
    /\ packetChan # <<>>
    /\ Head(packetChan).data = FrameWarn
    /\ engine.buf # FrameWarn
    /\ engine.buf # FrameCritical
    /\ netlog.reads = 3
    /\ netlog.queued = 2

(***************************************************************************)
(* C36: every record a worker has written, and every record a worker is    *)
(* about to write, has its key in the address book; the book never loses   *)
(* an entry nor changes one.                                               *)
(***************************************************************************)
WorkerRecordsAreInBook ==
    /\ [](/\ \A a \in Present \ {LocalAddr} : a \in DOMAIN peers
          /\ \A w \in Workers :
                workers[w].pc \in {"update", "locked"} =>
                   AddrString(workers[w].addr) \in DOMAIN peers)
    /\ [][\A k \in DOMAIN peers : k \in DOMAIN peers' /\ peers'[k] = peers[k]]_vars

\* The record of instance 2 has been evicted and a broadcast is on its way
\* to it.
BroadcastToEvictedPeer ==
    /\ timedOutLog[AddrString(RemoteAddr)] = 1
    /\ ~GetNodeInfo(AddrString(RemoteAddr)).ok
    /\ AddrString(RemoteAddr) \in DOMAIN peers
    /\ bcast.pc = "send"
    /\ AddrString(RemoteAddr) \in bcast.todo

(***************************************************************************)
(* C37 as stated: once every queued frame has been handled, the record of  *)
(* a peer whose last queued frame was valid shows the severity and the     *)
(* sender timestamp of that frame.                                         *)
(***************************************************************************)
RecordShowsLastAccepted ==
    (/\ packetChan = <<>>
     /\ \A w \in Workers : workers[w].pc = "idle"
     /\ netlog.handled = netlog.queued)
        => \A k \in DOMAIN netlog.lastQueued :
              Decode(netlog.lastQueued[k]).err = "nil" =>
                 /\ GetNodeInfo(k).ok
                 /\ GetNodeInfo(k).info.StatusCode
                       = Decode(netlog.lastQueued[k]).p.StatusCode
                 /\ GetNodeInfo(k).info.PacketTime
                       = Decode(netlog.lastQueued[k]).p.Timestamp

(***************************************************************************)
(* C38 as stated: in the report made from the two calls, NodeCount equals  *)
(* the number of entries of Nodes, and "No active nodes" is printed only   *)
(* when the map the reporter holds has no entry.                           *)
(***************************************************************************)
ReportCountMatchesNodes ==
    Reported =>
       /\ reportJSON(lister.result, counter.result).NodeCount
             = Cardinality(DOMAIN reportJSON(lister.result, counter.result).Nodes)
       /\ reportHuman(lister.result, counter.result).NoActiveNodes
             => lister.result = <<>>


(***************************************************************************)
(* C39 as stated: the address book holds at most one entry for a wire      *)
(* address, and one call of BroadcastHeartbeat sends at most one datagram  *)
(* to a wire address, also when a peer was added by a string and learned   *)
(* from a frame whose source is written otherwise.                         *)
(***************************************************************************)
BookOneEntryPerWireAddress ==
    /\ \A j, k \in DOMAIN peers : peers[j] = peers[k] => j = k
    /\ \A i, j \in 1 .. Len(bcast.sends) :
          bcast.sends[i].addr = bcast.sends[j].addr => i = j


(***************************************************************************)
(* C40: a worker that takes a datagram of PacketSize octets whose last     *)
(* four are the CRC of the first 26 decodes it without an error, whatever  *)
(* its version and severity octets are, and carries those octets on; it    *)
(* then enters the source into the address book and stores the severity    *)
(* unchanged in the record of the source, where a severity other than 0,   *)
(* 1 and 2 is shown as "UNKNOWN".                                          *)
(***************************************************************************)
AnyChecksummedFrameApplied ==
    [][/\ (packetChan # <<>> /\ packetChan' = Tail(packetChan))
          => LET d == Head(packetChan).rcvd IN
             (/\ Len(d) = PacketSize
              /\ Uint32(SubSeq(d, PacketDataSize + 1, PacketSize))
                    = ChecksumIEEE(SubSeq(d, 1, PacketDataSize)))
                => /\ netlog'.decodeFailed = netlog.decodeFailed
                   /\ \E w \in Workers :
                         /\ workers[w].pc = "idle"
                         /\ workers'[w].pc = "peer"
                         /\ workers'[w].addr = Head(packetChan).addr
                         /\ workers'[w].pkt.Version = d[1]
                         /\ workers'[w].pkt.StatusCode = d[26]
       /\ \A w \in Workers :
             LET a == AddrString(workers[w].addr)
                 nodes == shards'[getShard(a)].nodes
             IN  /\ (workers[w].pc = "peer" /\ workers'[w].pc # "peer")
                    => (a \in DOMAIN peers' /\ peers'[a] = workers[w].addr)
                 /\ (workers[w].pc = "locked" /\ workers'[w].pc # "locked")
                    => /\ a \in DOMAIN nodes
                       /\ nodes[a].StatusCode = workers[w].pkt.StatusCode
                       /\ nodes[a].StatusCode \in 3 .. 255
                             => reportJSON(nodes, 1).Nodes[a].Status = "UNKNOWN"]_vars

\* The record of a peer holds severity 9, which only the frame of version 2
\* carries, the peer is in the address book, and a report shows UNKNOWN.
ReservedSeverityStored ==
    LET a == AddrString(RemoteAddr) IN
    /\ GetNodeInfo(a).ok
    /\ GetNodeInfo(a).info.StatusCode = 9
    /\ a \in DOMAIN peers
    /\ statusCodeToString(GetNodeInfo(a).info.StatusCode) = "UNKNOWN"
    /\ netlog.decodeFailed > 0

====
